---------------------------- MODULE Spec2Model ----------------------------
(***************************************************************************)
(* State-machine model of the subscription tracking and polling engine of  *)
(* fullbr115 (src/app/services/subscription.py) together with the parts of *)
(* its collaborators that decide its behaviour.                             *)
(*                                                                         *)
(* The service runs on one asyncio event loop.  Coroutines (the scheduler  *)
(* task and the add_subscription request handlers) run without preemption  *)
(* between two awaits, so every action below is one such segment: it starts *)
(* where a coroutine is resumed and ends where it awaits again or returns.  *)
(* delete_subscription has no await and is one action.                      *)
(*                                                                         *)
(* Strings are sequences of one-character strings.  The two CJK characters  *)
(* of the localized range pattern are written by their code points,        *)
(* "U7B2C" and "U96C6".                                                    *)
(***************************************************************************)
EXTENDS Integers, Sequences, FiniteSets, TLC

(***************************************************************************)
(* Bounds of the model.                                                    *)
(***************************************************************************)
NumTasks == 2        \* add_subscription handlers that can be in flight at once
MaxAdds == 2         \* add_subscription calls in one behaviour
MaxObjects == 1      \* Subscription objects created in one behaviour of Spec
MaxDeletes == 1      \* delete_subscription calls in one behaviour
MaxEpisodes == 2     \* largest episode_count the metadata client reports
MaxHours == 9        \* hours of wall-clock time in one behaviour
MaxPasses == 2       \* scheduler passes in one behaviour
MaxRestarts == 1     \* start_scheduler calls that find the scheduler running
MaxTarget == 2       \* the resource index holds releases for episodes 1..MaxTarget
MaxCandidates == 3   \* releases in one answer of the resource index, where sizes are compared
TicksPerSecond == 2  \* resolution of the clock below one second

(***************************************************************************)
(* Program constants.                                                      *)
(***************************************************************************)
max_loops == 50          \* _process_tv: safety cap of the series loop
SchedulerPeriod == 3600  \* start_scheduler: asyncio.sleep(3600)
DeferHours == 8          \* _defer_check(sub, hours=8, ...)
WaitDays == 1            \* timedelta(days=1)
YearCutoff == 1900       \* _extract_max_episode: if end < 1900
KiB == 1024              \* _parse_size: 1024-based units
PauseSecs == 2           \* _process_tv: await asyncio.sleep(2)

(***************************************************************************)
(* Time.  The clock counts ticks of 1/TicksPerSecond second, so that        *)
(* datetime.now() has a sub-second part that strftime("%Y-%m-%d %H:%M:%S")  *)
(* drops.  A formatted timestamp is modelled by its number of whole seconds,*)
(* a formatted date ("%Y-%m-%d") by its number of whole days.               *)
(***************************************************************************)
HourTicks == 3600 * TicksPerSecond
DayTicks == 24 * HourTicks

Max(a, b) == IF a >= b THEN a ELSE b

\* datetime.strftime("%Y-%m-%d %H:%M:%S"): the whole seconds of an instant
Strftime(t) == t \div TicksPerSecond
\* datetime.strptime(s, "%Y-%m-%d %H:%M:%S"): the instant of a timestamp
Strptime(s) == s * TicksPerSecond
\* datetime.strftime("%Y-%m-%d"): the day of an instant
DateStr(t) == t \div DayTicks

(***************************************************************************)
(* Characters.                                                             *)
(***************************************************************************)
Digits == <<"0", "1", "2", "3", "4", "5", "6", "7", "8", "9">>
LowerCase == <<"a", "b", "c", "d", "e", "f", "g", "h", "i", "j", "k", "l", "m",
               "n", "o", "p", "q", "r", "s", "t", "u", "v", "w", "x", "y", "z">>
UpperCase == <<"A", "B", "C", "D", "E", "F", "G", "H", "I", "J", "K", "L", "M",
               "N", "O", "P", "Q", "R", "S", "T", "U", "V", "W", "X", "Y", "Z">>

Range(s) == {s[i] : i \in DOMAIN s}
IndexOf(s, c) == CHOOSE i \in DOMAIN s : s[i] = c

DigitSet == Range(Digits)                               \* \d
LetterSet == Range(LowerCase) \cup Range(UpperCase)     \* [a-zA-Z]
NumSet == DigitSet \cup {"."}                           \* [\d.]
SpaceSet == {" "}                                       \* \s
SepSet == {"-", "~"}                                    \* [-~]
PrefixSet == {"E", "|", "P"}                            \* [E|EP]

DigitVal(c) == IndexOf(Digits, c) - 1

\* str.upper(), character by character
UpperChar(c) == IF c \in Range(LowerCase) THEN UpperCase[IndexOf(LowerCase, c)] ELSE c
Upper(s) == [i \in DOMAIN s |-> UpperChar(s[i])]

\* the end (inclusive) of the longest run of characters of the class C that
\* starts at position i; i - 1 when s[i] is not of the class
RECURSIVE RunEnd(_, _, _)
RunEnd(s, i, C) ==
    IF i <= Len(s) /\ s[i] \in C THEN RunEnd(s, i + 1, C) ELSE i - 1

\* int() of the digits s[i..j]
RECURSIVE IntOf(_, _, _)
IntOf(s, i, j) ==
    IF j < i THEN 0 ELSE IntOf(s, i, j - 1) * 10 + DigitVal(s[j])

\* the smallest member of a non-empty set of integers
MinOf(S) == CHOOSE x \in S : \A y \in S : x <= y

(***************************************************************************)
(* _extract_max_episode.  re.search returns the leftmost match; in both     *)
(* patterns every repeated class is followed by a character outside the     *)
(* class, so a match at a position is the one with the longest runs.        *)
(***************************************************************************)
\* r'第(\d+)[-~](\d+)集' matched at position i: <<TRUE, group 2>> or <<FALSE, 0>>
ZhRangeAt(s, i) ==
    LET a == RunEnd(s, i + 1, DigitSet)
        b == RunEnd(s, a + 2, DigitSet)
    IN IF /\ s[i] = "U7B2C"
          /\ a >= i + 1
          /\ a + 1 <= Len(s) /\ s[a + 1] \in SepSet
          /\ b >= a + 2
          /\ b + 1 <= Len(s) /\ s[b + 1] = "U96C6"
       THEN <<TRUE, IntOf(s, a + 2, b)>>
       ELSE <<FALSE, 0>>

\* r'[E|EP](\d+)[-~][E|EP]?(\d+)' matched at position i
EnRangeAt(s, i) ==
    LET a == RunEnd(s, i + 1, DigitSet)
        c == IF a + 2 <= Len(s) /\ s[a + 2] \in PrefixSet THEN a + 3 ELSE a + 2
        b == RunEnd(s, c, DigitSet)
    IN IF /\ s[i] \in PrefixSet
          /\ a >= i + 1
          /\ a + 1 <= Len(s) /\ s[a + 1] \in SepSet
          /\ b >= c
       THEN <<TRUE, IntOf(s, c, b)>>
       ELSE <<FALSE, 0>>

\* re.search: the match at the leftmost position that has one
SearchZh(s) ==
    LET hits == {i \in DOMAIN s : ZhRangeAt(s, i)[1]}
    IN IF hits = {} THEN <<FALSE, 0>> ELSE ZhRangeAt(s, MinOf(hits))

SearchEn(s) ==
    LET hits == {i \in DOMAIN s : EnRangeAt(s, i)[1]}
    IN IF hits = {} THEN <<FALSE, 0>> ELSE EnRangeAt(s, MinOf(hits))

\* the extractor without its "if end < 1900": the end of an 'E N-M' range is
\* taken also when it is a year
ExtractNoYearCutoff(filename, default_ep) ==
    LET name == Upper(filename)
        zh_range == SearchZh(name)
        en_range == SearchEn(name)
    IN IF zh_range[1] THEN Max(zh_range[2], default_ep)
       ELSE IF en_range[1] THEN Max(en_range[2], default_ep)
       ELSE default_ep

_extract_max_episode(filename, default_ep) ==
    LET name == Upper(filename)
        zh_range == SearchZh(name)
        en_range == SearchEn(name)
    IN IF zh_range[1] THEN Max(zh_range[2], default_ep)
       ELSE IF en_range[1] /\ en_range[2] < YearCutoff THEN Max(en_range[2], default_ep)
       ELSE default_ep

(***************************************************************************)
(* _parse_size.  The float it returns is kept exact as <<n, d, e>>, the     *)
(* number n / d * KiB^e with d a power of ten, and two such numbers are     *)
(* compared without computing them (a size in bytes exceeds the integers    *)
(* of the model checker).                                                   *)
(***************************************************************************)
RECURSIVE Pow(_, _)
Pow(b, e) == IF e = 0 THEN 1 ELSE b * Pow(b, e - 1)

SubStr(s, i, j) == [k \in 1..(j - i + 1) |-> s[i + k - 1]]

\* r'([\d.]+)\s*([a-zA-Z]+)' matched at position i: <<TRUE, a, w, u>> with
\* group 1 = s[i..a] and group 2 = s[w+1..u], or <<FALSE, 0, 0, 0>>
SizeAt(s, i) ==
    LET a == RunEnd(s, i, NumSet)
        w == RunEnd(s, a + 1, SpaceSet)
        u == RunEnd(s, w + 1, LetterSet)
    IN IF a >= i /\ u >= w + 1 THEN <<TRUE, a, w, u>> ELSE <<FALSE, 0, 0, 0>>

\* units.get(unit, 1), as the exponent e of KiB^e
UnitExp(unit) ==
    CASE unit = <<"B">> -> 0
      [] unit = <<"K", "B">> -> 1
      [] unit = <<"M", "B">> -> 2
      [] unit = <<"G", "B">> -> 3
      [] unit = <<"T", "B">> -> 4
      [] OTHER -> 0

\* float(num): <<TRUE, n, d>>, or <<FALSE, 0, 1>> where float raises ValueError
FloatOf(num) ==
    LET dots == {k \in DOMAIN num : num[k] = "."}
        dot == IF dots = {} THEN Len(num) + 1 ELSE MinOf(dots)
        frac == Len(num) - dot
    IN IF Cardinality(dots) > 1 \/ Len(num) - Cardinality(dots) = 0
       THEN <<FALSE, 0, 1>>
       ELSE IF dots = {} THEN <<TRUE, IntOf(num, 1, Len(num)), 1>>
       ELSE <<TRUE, IntOf(num, 1, dot - 1) * Pow(10, frac) + IntOf(num, dot + 1, Len(num)),
               Pow(10, frac)>>

_parse_size(size_str) ==
    IF size_str = <<>> THEN <<0, 1, 0>>
    ELSE LET hits == {i \in DOMAIN size_str : SizeAt(size_str, i)[1]}
         IN IF hits = {} THEN <<0, 1, 0>>
            ELSE LET i == MinOf(hits)
                     m == SizeAt(size_str, i)
                     num == FloatOf(SubStr(size_str, i, m[2]))
                     unit == Upper(SubStr(size_str, m[3] + 1, m[4]))
                 IN IF num[1] THEN <<num[2], num[3], UnitExp(unit)>> ELSE <<0, 1, 0>>

\* x < y for two parsed sizes
SizeLess(x, y) ==
    LET m == IF x[3] <= y[3] THEN x[3] ELSE y[3]
    IN IF x[1] = 0 \/ y[1] = 0 THEN x[1] < y[1]
       ELSE x[1] * y[2] * Pow(KiB, x[3] - m) < y[1] * x[2] * Pow(KiB, y[3] - m)

(***************************************************************************)
(* list.sort(key=_parse_size, reverse=True): a stable sort, so releases of  *)
(* equal size keep their order.                                            *)
(***************************************************************************)
\* r inserted into the sorted list s behind every release that is not smaller
RECURSIVE InsertDesc(_, _)
InsertDesc(s, r) ==
    IF s = <<>> THEN <<r>>
    ELSE IF SizeLess(_parse_size(Head(s).size), _parse_size(r.size))
         THEN <<r>> \o s
         ELSE <<Head(s)>> \o InsertDesc(Tail(s), r)

\* the candidates left in the order of the lookup: no sort
SortDropped(s) == s

RECURSIVE SortDesc(_)
SortDesc(s) ==
    IF s = <<>> THEN <<>>
    ELSE InsertDesc(SortDesc(SubSeq(s, 1, Len(s) - 1)), s[Len(s)])

\* the comprehension without its condition: every release is a candidate
ValidResUnfiltered(resources) == resources

\* [r for r in resources if r.link and r.link_type in ['magnet', 'ed2k']]
ValidRes(resources) ==
    SelectSeq(resources, LAMBDA r : r.link # <<>> /\ r.link_type \in {"magnet", "ed2k"})

(***************************************************************************)
(* Values.  An Optional field is None (the empty sequence) or <<v>>.  A     *)
(* timestamp field (a "%Y-%m-%d %H:%M:%S" string, or None) is a record: of  *)
(* kind "time" with its whole seconds, of kind "none", or of kind "bad" for *)
(* a string strptime rejects.                                               *)
(***************************************************************************)
None == <<>>
Some(v) == <<v>>

TimeStr(t) == [kind |-> "time", secs |-> Strftime(t)]
NoTime == [kind |-> "none", secs |-> 0]
BadTime == [kind |-> "bad", secs |-> 0]

\* the requests add_subscription is called with
TvRequests ==
    [media_type : {"tv"}, tmdb_id : {1}, season_number : {1},
     start_episode : {1}, title : {"show"}, poster_path : {"p1"}]
MovieRequests ==
    [media_type : {"movie"}, tmdb_id : {2}, season_number : {1},
     start_episode : {1}, title : {"film"}, poster_path : {"p2"}]
Requests == TvRequests \cup MovieRequests

\* sub_id = f"{media_type}_{tmdb_id}" (+ f"_s{season_number}" for tv)
SubId(req) ==
    IF req.media_type = "tv"
    THEN <<req.media_type, "_", req.tmdb_id, "_s", req.season_number>>
    ELSE <<req.media_type, "_", req.tmdb_id>>

SubIds == {SubId(req) : req \in Requests}

\* the fields of a Subscription that its constructor call leaves to the class
\* (app.models.schemas.Subscription, as the data model describes it)
SubscriptionDefaults ==
    [last_check_time |-> NoTime, season_number |-> None, total_episodes |-> 0,
     current_episode |-> 0, episode_air_dates |-> <<>>, release_date |-> None,
     save_cid |-> None, status |-> "active", message |-> <<>>]

\* new_sub = Subscription(id=sub_id, ..., next_check_time=datetime.now().strftime(...))
NewSubscription(req, clk) ==
    [id |-> SubId(req), tmdb_id |-> req.tmdb_id, media_type |-> req.media_type,
     title |-> req.title, poster_path |-> req.poster_path,
     next_check_time |-> TimeStr(clk)] @@ SubscriptionDefaults

(***************************************************************************)
(* What the collaborators answer.  A date ("%Y-%m-%d") is its day number.   *)
(***************************************************************************)
\* tmdb_service.get_season_details: episode_count = len(episodes), and the
\* air_date of each episode, None where TMDB has none
SeasonInfos ==
    {[episode_count |-> n, air |-> [e \in 1..n |-> None]] : n \in {0, MaxEpisodes}}
    \cup {[episode_count |-> MaxEpisodes,
           air |-> [e \in 1..MaxEpisodes |-> IF e = MaxEpisodes THEN Some(1) ELSE Some(0)]]}

\* tmdb_service.get_details_full('movie', id).release_date
MovieDetails == {[release_date |-> d] : d \in {None, Some(0), Some(1)}}

\* p115_service.get_target_cid
Cids == {7}

RelSingle == [title |-> <<"S", "0", "1", "E", "0", "1">>, size |-> <<"1", "G", "B">>,
              link |-> <<"m">>, link_type |-> "magnet"]
RelPack == [title |-> <<"e", "1", "-", "e", "3">>, size |-> <<"2", "G", "B">>,
            link |-> <<"m">>, link_type |-> "magnet"]
RelZh == [title |-> <<"U7B2C", "1", "-", "2", "U96C6">>, size |-> <<"9", "0", "0", " ", "M", "B">>,
          link |-> <<"e">>, link_type |-> "ed2k"]
RelNoLink == [title |-> <<"E", "P", "1">>, size |-> <<"3", "G", "B">>,
              link |-> <<>>, link_type |-> "magnet"]
RelShare == [title |-> <<"f", "i", "l", "m">>, size |-> <<"4", "G", "B">>,
             link |-> <<"s">>, link_type |-> "115_share"]
NoRelease == [title |-> <<>>, size |-> <<>>, link |-> <<>>, link_type |-> ""]

\* nullbr_service.fetch_tv_episode: magnet and ed2k releases; [] also when
\* the SDK raised, which the service catches
TvResults(episode_number) ==
    IF episode_number > MaxTarget THEN {<<>>}
    ELSE {<<>>, <<RelSingle>>, <<RelSingle, RelPack>>, <<RelZh>>, <<RelNoLink>>}

\* nullbr_service.fetch_movie: 115 share, magnet and ed2k releases
MovieResults == {<<>>, <<RelShare>>, <<RelShare, RelSingle>>}

(***************************************************************************)
(* The step: _process_tv and _process_movie, cut at their awaits.  Each     *)
(* operator runs one segment on the object store h and returns the store,   *)
(* the position st the step awaits at, and ret = TRUE when it returned.     *)
(***************************************************************************)
Idle == [pc |-> "none", sub |-> 0, loops |-> 0, target |-> 0, chosen |-> NoRelease,
         to_cid |-> None, resume |-> 0]

Return(h) == [heap |-> h, st |-> Idle, ret |-> TRUE]
Await(h, st) == [heap |-> h, st |-> st, ret |-> FALSE]

_defer_check(sub, hours, msg, clk) ==
    [sub EXCEPT !.message = msg,
                !.next_check_time = TimeStr(clk + hours * HourTicks)]

\* sub.episode_air_dates.get(str(target_ep))
AirDate(sub, ep) ==
    IF ep \in DOMAIN sub.episode_air_dates THEN sub.episode_air_dates[ep] ELSE None

\* _perform_download up to its await: FALSE where it returns False at once
\* (link_type not in ['magnet', 'ed2k']), TRUE where it awaits add_offline_tasks
AsksStorage(resource) == resource.link_type \in {"magnet", "ed2k"}

\* the loop of _process_tv without its check for the end of the season
TvLoopNoCompletion(h, o, loops, clk) ==
    IF ~(loops < max_loops) THEN Return(h)
    ELSE Await(h, [Idle EXCEPT !.pc = "fetch", !.sub = o, !.loops = loops + 1,
                               !.target = h[o].current_episode + 1])

\* the loop of _process_tv without its check of the air date of the target
TvLoopNoAirGate(h, o, loops, clk) ==
    LET sub == h[o]
        target_ep == sub.current_episode + 1
    IN IF ~(loops < max_loops) THEN Return(h)
       ELSE IF sub.total_episodes > 0 /\ target_ep > sub.total_episodes
       THEN Return([h EXCEPT ![o] = [sub EXCEPT !.status = "completed",
                                                !.message = <<"finished">>]])
       ELSE Await(h, [Idle EXCEPT !.pc = "fetch", !.sub = o, !.loops = loops + 1,
                                  !.target = target_ep])

\* the loop of _process_tv as "while True": no bound on its iterations
TvLoopUncapped(h, o, loops, clk) ==
    LET sub == h[o]
        target_ep == sub.current_episode + 1
        air_date == AirDate(sub, target_ep)
    IN IF sub.total_episodes > 0 /\ target_ep > sub.total_episodes
       THEN Return([h EXCEPT ![o] = [sub EXCEPT !.status = "completed",
                                                !.message = <<"finished">>]])
       ELSE IF air_date # None /\ air_date[1] > DateStr(clk)
       THEN Return([h EXCEPT ![o] =
                [sub EXCEPT !.message = <<"wait_air", target_ep, air_date[1]>>,
                            !.next_check_time = TimeStr(clk + WaitDays * DayTicks)]])
       ELSE Await(h, [Idle EXCEPT !.pc = "fetch", !.sub = o, !.loops = loops + 1,
                                  !.target = target_ep])

\* while loops < max_loops: ... up to the await of fetch_tv_episode
TvLoop(h, o, loops, clk) ==
    LET sub == h[o]
        target_ep == sub.current_episode + 1
        air_date == AirDate(sub, target_ep)
    IN IF ~(loops < max_loops) THEN Return(h)
       ELSE IF sub.total_episodes > 0 /\ target_ep > sub.total_episodes
       THEN Return([h EXCEPT ![o] = [sub EXCEPT !.status = "completed",
                                                !.message = <<"finished">>]])
       ELSE IF air_date # None /\ air_date[1] > DateStr(clk)
       THEN Return([h EXCEPT ![o] =
                [sub EXCEPT !.message = <<"wait_air", target_ep, air_date[1]>>,
                            !.next_check_time = TimeStr(clk + WaitDays * DayTicks)]])
       ELSE Await(h, [Idle EXCEPT !.pc = "fetch", !.sub = o, !.loops = loops + 1,
                                  !.target = target_ep])

_process_tv(h, o, clk) == TvLoop(h, o, 0, clk)

\* from the return of _perform_download to the await of asyncio.sleep(2)
TvDownloaded(h, st, success, clk) ==
    LET o == st.sub
        sub == h[o]
        target_ep == st.target
        new_current == _extract_max_episode(st.chosen.title, target_ep)
    IN IF success
       THEN Await([h EXCEPT ![o] =
                [sub EXCEPT !.current_episode =
                                IF new_current > target_ep THEN new_current ELSE target_ep,
                            !.message =
                                IF new_current > target_ep
                                THEN <<"pack", target_ep, new_current>>
                                ELSE <<"added", target_ep, st.chosen.size>>,
                            !.next_check_time = TimeStr(clk)]],
                  [st EXCEPT !.pc = "pause", !.resume = clk + PauseSecs * TicksPerSecond])
       ELSE Return([h EXCEPT ![o] =
                _defer_check(sub, DeferHours, <<"dl_failed", target_ep>>, clk)])

\* the dispatch of a series step with to_cid left out: the storage client
\* saves to the download path of the settings
TvDispatchDefaultTarget(h, st, target, clk) ==
    IF AsksStorage(target)
    THEN Await(h, [st EXCEPT !.pc = "dl", !.chosen = target])
    ELSE TvDownloaded(h, [st EXCEPT !.chosen = target], FALSE, clk)

\* success = await self._perform_download(target, to_cid=sub.save_cid, ...),
\* up to its await
TvDispatch(h, st, target, clk) ==
    IF AsksStorage(target)
    THEN Await(h, [st EXCEPT !.pc = "dl", !.chosen = target,
                             !.to_cid = h[st.sub].save_cid])
    ELSE TvDownloaded(h, [st EXCEPT !.chosen = target], FALSE, clk)

\* the step of a series that returns on an empty lookup without deferring
TvFetchedNoDefer(h, st, resources, clk) ==
    LET valid_res == SortDesc(ValidRes(resources))
    IN IF valid_res # <<>>
       THEN TvDispatch(h, st, valid_res[1], clk)
       ELSE Return(h)

\* from the return of fetch_tv_episode to the await inside _perform_download
TvFetched(h, st, resources, clk) ==
    LET o == st.sub
        valid_res == SortDesc(ValidRes(resources))
    IN IF valid_res # <<>>
       THEN TvDispatch(h, st, valid_res[1], clk)
       ELSE Return([h EXCEPT ![o] =
                _defer_check(h[o], DeferHours, <<"no_res", st.target>>, clk)])

\* _process_movie without its release gate: the lookup is always made
MovieGateDropped(h, o, clk) == Await(h, [Idle EXCEPT !.pc = "fetch", !.sub = o])

\* _process_movie up to the await of fetch_movie
_process_movie(h, o, clk) ==
    LET sub == h[o]
    IN IF sub.release_date # None /\ sub.release_date[1] > DateStr(clk)
       THEN Return([h EXCEPT ![o] =
                [sub EXCEPT !.message = <<"not_released", sub.release_date[1]>>,
                            !.next_check_time = TimeStr(clk + WaitDays * DayTicks)]])
       ELSE Await(h, [Idle EXCEPT !.pc = "fetch", !.sub = o])

MovieDownloaded(h, st, success, clk) ==
    LET o == st.sub
        sub == h[o]
    IN IF success
       THEN Return([h EXCEPT ![o] =
                [sub EXCEPT !.status = "completed",
                            !.message = <<"got", st.chosen.title, st.chosen.size>>]])
       ELSE Return([h EXCEPT ![o] =
                _defer_check(sub, DeferHours, <<"movie_dl_failed">>, clk)])

MovieDispatch(h, st, target, clk) ==
    IF AsksStorage(target)
    THEN Await(h, [st EXCEPT !.pc = "dl", !.chosen = target,
                             !.to_cid = h[st.sub].save_cid])
    ELSE MovieDownloaded(h, [st EXCEPT !.chosen = target], FALSE, clk)

MovieFetched(h, st, resources, clk) ==
    LET o == st.sub
        valid_res == SortDesc(ValidRes(resources))
    IN IF valid_res # <<>>
       THEN MovieDispatch(h, st, valid_res[1], clk)
       ELSE Return([h EXCEPT ![o] =
                _defer_check(h[o], DeferHours, <<"movie_no_res">>, clk)])

IsMovie(h, o) == h[o].media_type = "movie"

\* _process_movie(sub) or _process_tv(sub), as both callers choose
Process(h, o, clk) ==
    IF IsMovie(h, o) THEN _process_movie(h, o, clk) ELSE _process_tv(h, o, clk)
Fetched(h, st, resources, clk) ==
    IF IsMovie(h, st.sub) THEN MovieFetched(h, st, resources, clk)
    ELSE TvFetched(h, st, resources, clk)
Downloaded(h, st, success, clk) ==
    IF IsMovie(h, st.sub) THEN MovieDownloaded(h, st, success, clk)
    ELSE TvDownloaded(h, st, success, clk)
Dispatch(h, st, target, clk) ==
    IF IsMovie(h, st.sub) THEN MovieDispatch(h, st, target, clk)
    ELSE TvDispatch(h, st, target, clk)
\* what the lookup a step awaits can return
FetchResults(h, st) ==
    IF st.pc # "fetch" THEN {}
    ELSE IF IsMovie(h, st.sub) THEN MovieResults ELSE TvResults(st.target)

(***************************************************************************)
(* State.                                                                  *)
(***************************************************************************)
VARIABLES
    clock,          \* datetime.now(), in ticks
    heap,           \* the Subscription objects ever appended, by reference
    subscriptions,  \* self.subscriptions: references into heap
    file,           \* data/subscriptions.json: the records last saved
    saves,          \* calls of _save_data in the latest action
    is_running,     \* self.is_running
    sched,          \* the scheduler task: start_scheduler / check_all_subscriptions
    task,           \* the add_subscription calls, by handler
    step,           \* the step in flight of the scheduler (0) and of each handler
    nadds,          \* add_subscription calls so far
    ndel,           \* delete_subscription calls so far
    passes          \* scheduler passes so far

vars == <<clock, heap, subscriptions, file, saves, is_running, sched, task, step,
          nadds, ndel, passes>>

Tasks == 1..NumTasks
Scheduler == 0
Procs == {Scheduler} \cup Tasks
MaxClock == MaxHours * HourTicks

NoReq == [media_type |-> "", tmdb_id |-> 0, season_number |-> 0, start_episode |-> 0,
          title |-> "", poster_path |-> ""]
NoResult == [success |-> FALSE, message |-> ""]
IdleTask == [pc |-> "idle", req |-> NoReq, new_sub |-> None, result |-> NoResult]

\* the scheduler before start_scheduler is called; returned counts the calls
\* of start_scheduler that found is_running set and returned at once
SchedOff ==
    [pc |-> "off", now |-> 0, updated |-> FALSE, idx |-> 0, detached |-> FALSE,
     list |-> <<>>, wake |-> 0, returned |-> 0]

\* the scheduler outside a pass: in asyncio.sleep(3600), or cancelled
SchedAt(pc, wake) == [SchedOff EXCEPT !.pc = pc, !.wake = wake, !.returned = sched.returned]

\* SubscriptionService.__init__ on a fresh data directory: _ensure_data_file
\* writes [] and _load_data reads it
Init ==
    /\ clock = 0
    /\ heap = <<>>
    /\ subscriptions = <<>>
    /\ file = <<>>
    /\ saves = 0
    /\ is_running = FALSE
    /\ sched = SchedOff
    /\ task = [t \in Tasks |-> IdleTask]
    /\ step = [p \in Procs |-> Idle]
    /\ nadds = 0
    /\ ndel = 0
    /\ passes = 0

\* a save that writes an increment: the last record of the list only
SnapshotLast(h, subs) == IF subs = <<>> THEN <<>> ELSE <<h[subs[Len(subs)]]>>

\* json.dump([s.dict() for s in self.subscriptions], f)
Snapshot(h, subs) == [i \in DOMAIN subs |-> h[subs[i]]]

(***************************************************************************)
(* check_all_subscriptions.                                                *)
(***************************************************************************)
\* the list the for loop iterates: self.subscriptions as it was bound when
\* the loop began.  add_subscription appends to that list object;
\* delete_subscription binds self.subscriptions to a new list and leaves the
\* loop on the old one.
SchedList == IF sched.detached THEN sched.list ELSE subscriptions

\* the due check left out: every active subscription is stepped
DueCheckDropped(sub, now) == FALSE

\* the due check without its "if sub.next_check_time" and its "except: pass":
\* a missing or unparseable next_check_time keeps the subscription from the step
DueCheckStrict(sub, now) ==
    \/ sub.next_check_time.kind # "time"
    \/ now < Strptime(sub.next_check_time.secs)

\* if sub.next_check_time: try: if now < strptime(...): continue; except: pass
NotDue(sub, now) ==
    /\ sub.next_check_time.kind = "time"
    /\ now < Strptime(sub.next_check_time.secs)

\* the body of the for loop behind a step that returned
StepDone(h, o, now) == [h EXCEPT ![o].last_check_time = TimeStr(now)]

\* an except branch that also clears next_check_time
StepRaisedClearsTime(h, o) ==
    [h EXCEPT ![o].message = <<"check_error">>, ![o].next_check_time = NoTime]

\* except Exception as e: sub.message = f"检查出错: {str(e)}"
StepRaised(h, o) == [h EXCEPT ![o].message = <<"check_error">>]

\* the for loop from index i up to the next await or to its end
RECURSIVE RunPass(_, _, _, _, _, _)
RunPass(h, L, i, upd, now, clk) ==
    IF i > Len(L) THEN [heap |-> h, idx |-> i, updated |-> upd, st |-> Idle, over |-> TRUE]
    ELSE LET o == L[i]
             r == Process(h, o, clk)
         IN IF h[o].status = "completed" THEN RunPass(h, L, i + 1, upd, now, clk)
            ELSE IF NotDue(h[o], now) THEN RunPass(h, L, i + 1, upd, now, clk)
            ELSE IF r.ret THEN RunPass(StepDone(r.heap, o, now), L, i + 1, TRUE, now, clk)
            ELSE [heap |-> r.heap, idx |-> i, updated |-> upd, st |-> r.st, over |-> FALSE]

\* the save at the end of the pass writes the list the for loop iterated
PassResultSavesLoopList(s, pr, clk) ==
    /\ heap' = pr.heap
    /\ step' = [step EXCEPT ![Scheduler] = pr.st]
    /\ IF pr.over
       THEN /\ sched' = SchedAt("sleep", clk + SchedulerPeriod * TicksPerSecond)
            /\ file' = IF pr.updated
                       THEN Snapshot(pr.heap, IF s.detached THEN s.list ELSE subscriptions)
                       ELSE file
            /\ saves' = IF pr.updated THEN 1 ELSE 0
       ELSE /\ sched' = [s EXCEPT !.pc = "step", !.idx = pr.idx, !.updated = pr.updated]
            /\ file' = file
            /\ saves' = 0

\* the scheduler's variables behind a segment of the pass of s with result
\* pr, run at clk; at the end of the pass: if updated: self._save_data(), and
\* start_scheduler awaits asyncio.sleep(3600)
PassResult(s, pr, clk) ==
    /\ heap' = pr.heap
    /\ step' = [step EXCEPT ![Scheduler] = pr.st]
    /\ IF pr.over
       THEN /\ sched' = SchedAt("sleep", clk + SchedulerPeriod * TicksPerSecond)
            /\ file' = IF pr.updated THEN Snapshot(pr.heap, subscriptions) ELSE file
            /\ saves' = IF pr.updated THEN 1 ELSE 0
       ELSE /\ sched' = [s EXCEPT !.pc = "step", !.idx = pr.idx, !.updated = pr.updated]
            /\ file' = file
            /\ saves' = 0

\* check_all_subscriptions from its call to its first await: now = datetime.now()
BeginPass(clk) ==
    /\ passes' = passes + 1
    /\ PassResult([SchedAt("step", 0) EXCEPT !.now = clk],
                  RunPass(heap, subscriptions, 1, FALSE, clk, clk), clk)

\* start_scheduler, called once by lifespan: the first pass starts at once
SchedStart ==
    /\ sched.pc = "off"
    /\ ~is_running
    /\ is_running' = TRUE
    /\ BeginPass(clock)
    /\ UNCHANGED <<clock, subscriptions, task, nadds, ndel>>

\* the instants asyncio.sleep(3600) can end at: when the period is over, or
\* later, when a subscription of the list has come due
WakeTimes ==
    LET first == Max(clock, sched.wake)
    IN {first} \cup
       {Strptime(heap[subscriptions[i]].next_check_time.secs) :
            i \in {j \in DOMAIN subscriptions :
                    /\ heap[subscriptions[j]].next_check_time.kind = "time"
                    /\ Strptime(heap[subscriptions[j]].next_check_time.secs) > first}}

\* asyncio.sleep(3600) is over at the instant t: the next pass
SchedWake(t) ==
    /\ sched.pc = "sleep"
    /\ t \in WakeTimes
    /\ t <= MaxClock
    /\ passes < MaxPasses
    /\ clock' = t
    /\ BeginPass(t)
    /\ UNCHANGED <<subscriptions, is_running, task, nadds, ndel>>

\* the scheduler behind a segment r, run at clk, of the step on
\* SchedList[sched.idx]
SchedContinue(r, clk) ==
    /\ clock' = clk
    /\ IF r.ret
       THEN PassResult(sched, RunPass(StepDone(r.heap, step[Scheduler].sub, sched.now),
                                      SchedList, sched.idx + 1, TRUE, sched.now, clk), clk)
       ELSE PassResult(sched, [heap |-> r.heap, idx |-> sched.idx,
                               updated |-> sched.updated, st |-> r.st, over |-> FALSE], clk)
    /\ UNCHANGED <<subscriptions, is_running, task, nadds, ndel, passes>>

\* no try around the step: the exception leaves check_all_subscriptions and
\* start_scheduler goes to its asyncio.sleep(3600)
SchedRaisedEndsPass ==
    /\ PassResult(sched, [heap |-> heap, idx |-> sched.idx, updated |-> FALSE,
                          st |-> Idle, over |-> TRUE], clock)
    /\ UNCHANGED <<clock, subscriptions, is_running, task, nadds, ndel, passes>>

\* the scheduler behind a step that raised: the except branch, then the loop
SchedRaised ==
    /\ PassResult(sched, RunPass(StepRaised(heap, step[Scheduler].sub), SchedList,
                                 sched.idx + 1, sched.updated, sched.now, clock), clock)
    /\ UNCHANGED <<clock, subscriptions, is_running, task, nadds, ndel, passes>>

(***************************************************************************)
(* add_subscription.                                                       *)
(***************************************************************************)
Done(t, ok, msg) ==
    [task EXCEPT ![t] = [@ EXCEPT !.pc = "done", !.new_sub = None,
                                  !.result = [success |-> ok, message |-> msg]]]

\* for sub in self.subscriptions: if sub.id == sub_id
Duplicate(req) == \E i \in DOMAIN subscriptions : heap[subscriptions[i]].id = SubId(req)

\* the calls of add_subscription that hold a Subscription not yet appended
InFlight == Cardinality({t \in Tasks : task[t].new_sub # None})

\* add_subscription without the loop over self.subscriptions
AddBeginUnchecked(t, req, max_objects) ==
    /\ is_running
    /\ task[t].pc \in {"idle", "done"}
    /\ nadds < MaxAdds
    /\ nadds' = nadds + 1
    /\ task' = [task EXCEPT ![t] =
                [pc |-> "meta", req |-> req, result |-> NoResult,
                 new_sub |-> Some(
                    IF req.media_type = "movie" THEN NewSubscription(req, clock)
                    ELSE [NewSubscription(req, clock) EXCEPT
                              !.season_number = Some(req.season_number)])]]
    /\ saves' = 0
    /\ UNCHANGED <<clock, heap, subscriptions, file, is_running, sched, step, ndel, passes>>

\* from the call to the await of the metadata lookup
AddBegin(t, req, max_objects) ==
    /\ is_running
    /\ task[t].pc \in {"idle", "done"}
    /\ nadds < MaxAdds
    /\ nadds' = nadds + 1
    /\ Duplicate(req) \/ Len(heap) + InFlight < max_objects
    /\ IF Duplicate(req)
       THEN task' = [task EXCEPT ![t] = [pc |-> "done", req |-> req, new_sub |-> None,
                        result |-> [success |-> FALSE, message |-> "exists"]]]
       ELSE task' = [task EXCEPT ![t] =
                [pc |-> "meta", req |-> req, result |-> NoResult,
                 new_sub |-> Some(
                    IF req.media_type = "movie" THEN NewSubscription(req, clock)
                    ELSE [NewSubscription(req, clock) EXCEPT
                              !.season_number = Some(req.season_number)])]]
    /\ saves' = 0
    /\ UNCHANGED <<clock, heap, subscriptions, file, is_running, sched, step, ndel, passes>>

\* self.subscriptions.append(new_sub); self._save_data(); the immediate check
\* up to its first await, or to the return of add_subscription
AddFinish(t, new_sub) ==
    LET o == Len(heap) + 1
        h1 == Append(heap, new_sub)
        subs1 == Append(subscriptions, o)
        r == Process(h1, o, clock)
    IN /\ subscriptions' = subs1
       /\ heap' = r.heap
       /\ step' = [step EXCEPT ![t] = r.st]
       /\ IF r.ret
          THEN /\ file' = Snapshot(r.heap, subs1)
               /\ saves' = 2
               /\ task' = Done(t, TRUE, "subscribed")
          ELSE /\ file' = Snapshot(h1, subs1)
               /\ saves' = 1
               /\ task' = [task EXCEPT ![t].pc = "step", ![t].new_sub = None]

\* the metadata lookup of a movie returns
AddMovieMeta(t, details) ==
    /\ task[t].pc = "meta"
    /\ task[t].req.media_type = "movie"
    /\ AddFinish(t, [task[t].new_sub[1] EXCEPT
                        !.release_date = details.release_date,
                        !.message = <<"wait_release", details.release_date>>])
    /\ UNCHANGED <<clock, is_running, sched, nadds, ndel, passes>>

\* the metadata lookup of a season returns: up to the await of get_target_cid
AddSeasonMeta(t, season_info) ==
    /\ task[t].pc = "meta"
    /\ task[t].req.media_type # "movie"
    /\ task' = [task EXCEPT ![t].pc = "cid", ![t].new_sub = Some(
            [task[t].new_sub[1] EXCEPT
                !.total_episodes = season_info.episode_count,
                !.episode_air_dates =
                    LET dated == {e \in DOMAIN season_info.air : season_info.air[e] # None}
                    IN [e \in dated |-> season_info.air[e]],
                !.current_episode = Max(0, task[t].req.start_episode - 1),
                !.message = <<"subscribed", task[t].req.season_number,
                              task[t].req.start_episode>>])]
    /\ saves' = 0
    /\ UNCHANGED <<clock, heap, subscriptions, file, is_running, sched, step, nadds, ndel,
                   passes>>

\* the metadata lookup raises and the add goes on with the record as built
AddMetaRaiseAppends(t) ==
    /\ task[t].pc = "meta"
    /\ AddFinish(t, task[t].new_sub[1])
    /\ UNCHANGED <<clock, is_running, sched, nadds, ndel, passes>>

\* the metadata lookup raises: return {"success": False, ...}
AddMetaRaise(t) ==
    /\ task[t].pc = "meta"
    /\ task' = Done(t, FALSE, "init_failed")
    /\ saves' = 0
    /\ UNCHANGED <<clock, heap, subscriptions, file, is_running, sched, step, nadds, ndel,
                   passes>>

\* get_target_cid returns the folder of the series
AddCid(t, cid) ==
    /\ task[t].pc = "cid"
    /\ AddFinish(t, [task[t].new_sub[1] EXCEPT !.save_cid = Some(cid)])
    /\ UNCHANGED <<clock, is_running, sched, nadds, ndel, passes>>

\* get_target_cid raises: the inner except keeps the add going
AddCidRaise(t) ==
    /\ task[t].pc = "cid"
    /\ AddFinish(t, [task[t].new_sub[1] EXCEPT
                        !.message = <<"subscribed_nofolder", @[2], @[3]>>])
    /\ UNCHANGED <<clock, is_running, sched, nadds, ndel, passes>>

\* add_subscription behind a segment r of its immediate check: at the return
\* of the step, self._save_data() and return {"success": True, ...}
TaskContinue(t, r, clk) ==
    /\ clock' = clk
    /\ heap' = r.heap
    /\ step' = [step EXCEPT ![t] = r.st]
    /\ IF r.ret
       THEN /\ file' = Snapshot(r.heap, subscriptions)
            /\ saves' = 1
            /\ task' = Done(t, TRUE, "subscribed")
       ELSE /\ file' = file
            /\ saves' = 0
            /\ task' = task
    /\ UNCHANGED <<subscriptions, is_running, sched, nadds, ndel, passes>>

\* the immediate check raised: except Exception: pass
TaskRaised(t) ==
    /\ step' = [step EXCEPT ![t] = Idle]
    /\ task' = Done(t, TRUE, "subscribed")
    /\ saves' = 0
    /\ UNCHANGED <<clock, heap, subscriptions, file, is_running, sched, nadds, ndel, passes>>

(***************************************************************************)
(* The awaits of a step return.                                            *)
(***************************************************************************)
Continue(p, r, clk) ==
    IF p = Scheduler THEN SchedContinue(r, clk) ELSE TaskContinue(p, r, clk)

\* asyncio.to_thread(nullbr_service.fetch_...) returns resources
FetchReturn(p, resources) ==
    /\ step[p].pc = "fetch"
    /\ Continue(p, Fetched(heap, step[p], resources, clock), clock)

\* asyncio.to_thread(nullbr_service.fetch_...) raises: the await is in no try
\* of the step, so the exception leaves _process_tv / _process_movie
FetchRaise(p) ==
    /\ step[p].pc = "fetch"
    /\ IF p = Scheduler THEN SchedRaised ELSE TaskRaised(p)

\* _perform_download returns: res.get('success', False), or False where
\* add_offline_tasks raised
DownloadReturn(p, success) ==
    /\ step[p].pc = "dl"
    /\ Continue(p, Downloaded(heap, step[p], success, clock), clock)

\* break in the place of continue: the step returns when asyncio.sleep(2) is over
PauseReturnBreaks(p) ==
    /\ step[p].pc = "pause"
    /\ LET t == Max(clock, step[p].resume)
       IN /\ t <= MaxClock
          /\ Continue(p, Return(heap), t)

\* asyncio.sleep(2) is over, two seconds after its call if the clock is not
\* there yet: the next iteration of the loop of _process_tv
PauseReturn(p) ==
    /\ step[p].pc = "pause"
    /\ LET t == Max(clock, step[p].resume)
       IN /\ t <= MaxClock
          /\ Continue(p, TvLoop(heap, step[p].sub, step[p].loops, t), t)

(***************************************************************************)
(* delete_subscription.                                                    *)
(***************************************************************************)
DeleteSubscription(sub_id) ==
    /\ is_running
    /\ ndel < MaxDeletes
    /\ ndel' = ndel + 1
    /\ subscriptions' = SelectSeq(subscriptions, LAMBDA o : heap[o].id # sub_id)
    /\ sched' = IF sched.pc = "step" /\ ~sched.detached
                THEN [sched EXCEPT !.detached = TRUE, !.list = subscriptions]
                ELSE sched
    /\ file' = Snapshot(heap, subscriptions')
    /\ saves' = 1
    /\ UNCHANGED <<clock, heap, is_running, task, step, nadds, passes>>

(***************************************************************************)
(* lifespan, at shutdown: task.cancel().  CancelledError is raised at the   *)
(* await the scheduler task is suspended at: the asyncio.sleep(3600) of      *)
(* start_scheduler, or the await of the step in flight.  It is a            *)
(* BaseException, so neither "except Exception" of check_all_subscriptions, *)
(* of _perform_download or of start_scheduler catches it: the task ends     *)
(* there, and the rest of the pass, its _save_data included, is not run.    *)
(***************************************************************************)
Cancel ==
    /\ sched.pc \in {"step", "sleep"}
    /\ sched' = SchedAt("cancelled", 0)
    /\ step' = [step EXCEPT ![Scheduler] = Idle]
    /\ saves' = 0
    /\ UNCHANGED <<clock, heap, subscriptions, file, is_running, task, nadds, ndel, passes>>

(***************************************************************************)
(* Time passes within the first second.  The clock otherwise moves where a  *)
(* sleep ends (SchedWake, PauseReturn).                                     *)
(***************************************************************************)
Tick ==
    /\ clock + 1 < TicksPerSecond
    /\ clock' = clock + 1
    /\ saves' = 0
    /\ UNCHANGED <<heap, subscriptions, file, is_running, sched, task, step, nadds, ndel,
                   passes>>

\* one handler serves the add_subscription calls for a series, one after
\* the other, beside the scheduler and delete_subscription
Next ==
    \/ SchedStart
    \/ \E t \in WakeTimes : SchedWake(t)
    \/ \E req \in TvRequests : AddBegin(1, req, MaxObjects)
    \/ \E t \in Tasks, season_info \in SeasonInfos : AddSeasonMeta(t, season_info)
    \/ \E t \in Tasks : AddMetaRaise(t)
    \/ \E t \in Tasks, cid \in Cids : AddCid(t, cid)
    \/ \E t \in Tasks : AddCidRaise(t)
    \/ \E p \in Procs : \E resources \in FetchResults(heap, step[p]) :
            FetchReturn(p, resources)
    \/ \E p \in Procs : FetchRaise(p)
    \/ \E p \in Procs, success \in BOOLEAN : DownloadReturn(p, success)
    \/ \E p \in Procs : PauseReturn(p)
    \/ \E req \in TvRequests : DeleteSubscription(SubId(req))
    \/ Tick

Spec == Init /\ [][Next]_vars

\* the call paths with a step in flight on the Subscription o
Stepping(o) == {p \in Procs : step[p].pc # "none" /\ step[p].sub = o}

\* a Subscription has a step in flight on two call paths
Overlap == \E o \in DOMAIN heap : Cardinality(Stepping(o)) > 1

\* the runs in which every step on a subscription is over before the next
\* step on it begins
NextSeq ==
    \/ SchedStart
    \/ \E t \in WakeTimes : SchedWake(t) /\ ~Overlap'
    \/ \E req \in TvRequests : AddBegin(1, req, MaxObjects)
    \/ \E t \in Tasks, season_info \in SeasonInfos : AddSeasonMeta(t, season_info)
    \/ \E t \in Tasks : AddMetaRaise(t)
    \/ \E t \in Tasks, cid \in Cids : AddCid(t, cid) /\ ~Overlap'
    \/ \E t \in Tasks : AddCidRaise(t) /\ ~Overlap'
    \/ \E p \in Procs : \E resources \in FetchResults(heap, step[p]) :
            FetchReturn(p, resources) /\ ~Overlap'
    \/ \E p \in Procs : FetchRaise(p) /\ ~Overlap'
    \/ \E p \in Procs, success \in BOOLEAN : DownloadReturn(p, success) /\ ~Overlap'
    \/ \E p \in Procs : PauseReturn(p) /\ ~Overlap'
    \/ \E req \in TvRequests : DeleteSubscription(SubId(req))
    \/ Tick

SpecSeq == Init /\ [][NextSeq]_vars

\* a series and a movie are subscribed to, one call after the other, and the
\* scheduler's passes go over both
NextPass ==
    \/ SchedStart
    \/ \E t \in WakeTimes : SchedWake(t)
    \/ \E req \in Requests : AddBegin(1, req, MaxObjects + 1)
    \/ \E t \in Tasks, details \in MovieDetails : AddMovieMeta(t, details)
    \/ \E t \in Tasks, season_info \in SeasonInfos : AddSeasonMeta(t, season_info)
    \/ \E t \in Tasks : AddMetaRaise(t)
    \/ \E t \in Tasks, cid \in Cids : AddCid(t, cid)
    \/ \E t \in Tasks : AddCidRaise(t)
    \/ \E p \in Procs : \E resources \in FetchResults(heap, step[p]) :
            FetchReturn(p, resources)
    \/ \E p \in Procs : FetchRaise(p)
    \/ \E p \in Procs, success \in BOOLEAN : DownloadReturn(p, success)
    \/ \E p \in Procs : PauseReturn(p)

SpecPass == Init /\ [][NextPass]_vars

\* the same, in the runs in which every step on a subscription is over before
\* the next step on it begins
NextPassSeq ==
    \/ SchedStart
    \/ \E t \in WakeTimes : SchedWake(t) /\ ~Overlap'
    \/ \E req \in Requests : AddBegin(1, req, MaxObjects + 1)
    \/ \E t \in Tasks, details \in MovieDetails : AddMovieMeta(t, details) /\ ~Overlap'
    \/ \E t \in Tasks, season_info \in SeasonInfos : AddSeasonMeta(t, season_info)
    \/ \E t \in Tasks : AddMetaRaise(t)
    \/ \E t \in Tasks, cid \in Cids : AddCid(t, cid) /\ ~Overlap'
    \/ \E t \in Tasks : AddCidRaise(t) /\ ~Overlap'
    \/ \E p \in Procs : \E resources \in FetchResults(heap, step[p]) :
            FetchReturn(p, resources) /\ ~Overlap'
    \/ \E p \in Procs : FetchRaise(p) /\ ~Overlap'
    \/ \E p \in Procs, success \in BOOLEAN : DownloadReturn(p, success) /\ ~Overlap'
    \/ \E p \in Procs : PauseReturn(p) /\ ~Overlap'

SpecPassSeq == Init /\ [][NextPassSeq]_vars

\* two handlers serve add_subscription calls for the same series at once,
\* beside the scheduler's first pass
NextRace ==
    \/ SchedStart
    \/ \E t \in Tasks, req \in TvRequests : AddBegin(t, req, NumTasks)
    \/ \E t \in Tasks, season_info \in SeasonInfos : AddSeasonMeta(t, season_info)
    \/ \E t \in Tasks : AddMetaRaise(t)
    \/ \E t \in Tasks, cid \in Cids : AddCid(t, cid)
    \/ \E t \in Tasks : AddCidRaise(t)
    \/ \E p \in Tasks : \E resources \in FetchResults(heap, step[p]) :
            FetchReturn(p, resources)
    \/ \E p \in Tasks : FetchRaise(p)
    \/ \E p \in Tasks, success \in BOOLEAN : DownloadReturn(p, success)
    \/ \E p \in Tasks : PauseReturn(p)

SpecRace == Init /\ [][NextRace]_vars

(***************************************************************************)
(* The service started on a data file that holds records: _load_data builds *)
(* the list from whatever the file has, so a record may be completed, and   *)
(* its next_check_time may be missing or a string strptime rejects.         *)
(***************************************************************************)
LoadedTimes == {NoTime, BadTime, TimeStr(0), TimeStr(HourTicks)}

LoadedTv ==
    {[NewSubscription(req, 0) EXCEPT
          !.season_number = Some(req.season_number), !.total_episodes = MaxEpisodes,
          !.status = st, !.next_check_time = nct] :
        req \in TvRequests, st \in {"active", "completed"}, nct \in LoadedTimes}

LoadedMovies ==
    {[NewSubscription(req, 0) EXCEPT
          !.release_date = d, !.status = st, !.next_check_time = nct] :
        req \in MovieRequests, d \in {None, Some(1)}, st \in {"active", "completed"},
        nct \in LoadedTimes}

\* self.subscriptions = self._load_data()
InitLoad ==
    /\ clock = 0
    /\ \E tv \in LoadedTv, movie \in LoadedMovies : heap \in {<<tv>>, <<tv, movie>>}
    /\ subscriptions = [i \in DOMAIN heap |-> i]
    /\ file = heap
    /\ saves = 0
    /\ is_running = FALSE
    /\ sched = SchedOff
    /\ task = [t \in Tasks |-> IdleTask]
    /\ step = [p \in Procs |-> Idle]
    /\ nadds = 0
    /\ ndel = 0
    /\ passes = 0

\* the scheduler's passes over the loaded list, beside delete_subscription
\* and the add of a movie
NextLoad ==
    \/ SchedStart
    \/ \E t \in WakeTimes : SchedWake(t)
    \/ \E req \in MovieRequests : AddBegin(1, req, MaxObjects + 1)
    \/ \E details \in MovieDetails : AddMovieMeta(1, details)
    \/ AddMetaRaise(1)
    \/ \E resources \in FetchResults(heap, step[1]) : FetchReturn(1, resources)
    \/ FetchRaise(1)
    \/ \E success \in BOOLEAN : DownloadReturn(1, success)
    \/ \E resources \in FetchResults(heap, step[Scheduler]) :
            FetchReturn(Scheduler, resources)
    \/ FetchRaise(Scheduler)
    \/ \E success \in BOOLEAN : DownloadReturn(Scheduler, success)
    \/ PauseReturn(Scheduler)
    \/ \E req \in Requests : DeleteSubscription(SubId(req))

SpecLoad == InitLoad /\ [][NextLoad]_vars

\* the service from its start to the shutdown of the process
NextStop ==
    \/ SchedStart
    \/ \E t \in WakeTimes : SchedWake(t)
    \/ \E req \in TvRequests : AddBegin(1, req, MaxObjects)
    \/ \E t \in Tasks, season_info \in SeasonInfos : AddSeasonMeta(t, season_info)
    \/ \E t \in Tasks : AddMetaRaise(t)
    \/ \E t \in Tasks, cid \in Cids : AddCid(t, cid)
    \/ \E t \in Tasks : AddCidRaise(t)
    \/ \E p \in Procs : \E resources \in FetchResults(heap, step[p]) :
            FetchReturn(p, resources)
    \/ \E p \in Procs : FetchRaise(p)
    \/ \E p \in Procs, success \in BOOLEAN : DownloadReturn(p, success)
    \/ \E p \in Procs : PauseReturn(p)
    \/ Cancel

SpecStop == Init /\ [][NextStop]_vars

(***************************************************************************)
(* Properties.                                                             *)
(***************************************************************************)
Objects == DOMAIN heap

\* C1: once a subscription is completed none of its fields changes any more,
\* and its status never goes back to active
C1_CompletedIsFrozen ==
    [][\A o \in Objects : heap[o].status = "completed" => heap'[o] = heap[o]]_vars

\* C2: no two records of the subscription list share an id
C2_UniqueIds ==
    \A i, j \in DOMAIN subscriptions :
        heap[subscriptions[i]].id = heap[subscriptions[j]].id => i = j

\* the record of the list with the id of the request
Existing(req) == {i \in DOMAIN subscriptions : heap[subscriptions[i]].id = SubId(req)}

\* C3: add_subscription for a key that a record of the list already has
\* returns success = False at once: no metadata lookup, no step and so no
\* dispatch, no write of the file, and the records and the list stay as they were
C3_DuplicateAddRejected ==
    [][\A t \in Tasks : \A req \in Requests :
          AddBegin(t, req, MaxObjects) /\ Existing(req) # {}
          => /\ task'[t].pc = "done"
             /\ task'[t].result.success = FALSE
             /\ task'[t].new_sub = None
             /\ step' = step
             /\ saves' = 0 /\ file' = file
             /\ heap' = heap /\ subscriptions' = subscriptions]_vars

C3_Witness ==
    \E t \in Tasks :
        /\ task[t].pc = "done"
        /\ task[t].result = [success |-> FALSE, message |-> "exists"]
        /\ Existing(task[t].req) # {}

\* C4: no subscription has a step in flight on two call paths at once
C4_OneStepPerSubscription == \A o \in Objects : Cardinality(Stepping(o)) <= 1

\* C5: a series whose total_episodes is known has
\* 0 <= current_episode <= total_episodes
C5_EpisodeInRange ==
    \A o \in Objects :
        heap[o].media_type = "tv" /\ heap[o].total_episodes > 0
            => /\ 0 <= heap[o].current_episode
               /\ heap[o].current_episode <= heap[o].total_episodes

\* the subscription's next_check_time is later than now
Later(sub, now) ==
    /\ sub.next_check_time.kind = "time"
    /\ now < sub.next_check_time.secs * TicksPerSecond

\* the positions of its list that the scheduler's loop goes over in this
\* action: from the one behind the step that returned, or from the first, to
\* the one whose step it awaits next, or to the last
Visited ==
    LET L == IF sched.pc = "step" THEN SchedList ELSE subscriptions
        first == IF sched.pc = "step" THEN sched.idx + 1 ELSE 1
        last == IF sched'.pc = "step" THEN sched'.idx ELSE Len(L)
    IN IF ndel' = ndel /\ sched' # sched THEN {L[i] : i \in first..last} ELSE {}

\* C6: no step is run on a subscription whose next_check_time is later than
\* now.  A scheduler pass goes past it and leaves every field as it was; the
\* immediate check of add_subscription only ever gets a record whose
\* next_check_time is not later than now
C6_NotDueIsNoOp ==
    /\ [][\A o \in Visited :
            Later(heap[o], IF sched.pc = "step" THEN sched.now ELSE clock')
            => /\ heap'[o] = heap[o]
               /\ step'[Scheduler] = step[Scheduler] \/ step'[Scheduler].sub # o]_vars
    /\ [](\A t \in Tasks : task[t].new_sub # None => ~Later(task[t].new_sub[1], clock))

\* a pass has just gone past a subscription that the immediate check had deferred
C6_Witness ==
    /\ sched.pc = "sleep"
    /\ passes > 1
    /\ sched.wake = clock + SchedulerPeriod * TicksPerSecond
    /\ \E i \in DOMAIN subscriptions :
          LET sub == heap[subscriptions[i]]
          IN /\ sub.status = "active"
             /\ sub.last_check_time = NoTime
             /\ sub.message # <<"check_error">>
             /\ Later(sub, clock)
             /\ sub.next_check_time.secs * TicksPerSecond < clock + DeferHours * HourTicks

\* the positions behind the scheduler's step whose subscriptions this pass has
\* to step: not completed, and next_check_time not later than the pass's now
StillToStep ==
    {j \in (sched.idx + 1)..Len(SchedList) :
        /\ heap[SchedList[j]].status # "completed"
        /\ ~Later(heap[SchedList[j]], sched.now)}

\* C7: when the step of a subscription raises inside a scheduler pass, the
\* error is recorded in that subscription's message and the pass goes on: the
\* subscriptions behind it that are due are stepped, in order, in the same pass
C7_ErrorDoesNotBlockPass ==
    [][FetchRaise(Scheduler) =>
          /\ heap'[step[Scheduler].sub].message = <<"check_error">>
          /\ IF sched'.pc = "step"
             THEN /\ sched'.idx \in StillToStep
                  /\ step'[Scheduler].pc # "none"
                  /\ step'[Scheduler].sub = SchedList[sched'.idx]
             ELSE sched'.pc = "sleep"
          /\ \A j \in StillToStep :
                sched'.pc = "sleep" \/ j < sched'.idx
                => heap'[SchedList[j]].last_check_time = TimeStr(sched.now)]_vars

\* the step of the first subscription of the pass has raised and the step of
\* the second one is under way
C7_Witness ==
    /\ sched.pc = "step"
    /\ sched.idx = 2
    /\ step[Scheduler].pc # "none"
    /\ heap[SchedList[1]].message = <<"check_error">>
    /\ heap[SchedList[1]].last_check_time # TimeStr(sched.now)

\* C8: a step of the scheduler that ends on a failed lookup or a failed
\* dispatch, an exception caught by check_all_subscriptions included, leaves
\* the subscription active, with a message and a next_check_time later than now
C8_FailureIsDeferred ==
    [][\A o \in Objects :
          /\ step[Scheduler].pc \in {"fetch", "dl"}
          /\ step[Scheduler].sub = o
          /\ step'[Scheduler] # step[Scheduler]
          /\ step'[Scheduler].pc # "pause" /\ ~(step'[Scheduler].pc = "dl" /\ step[Scheduler].pc = "fetch")
          => /\ heap'[o].status = "active"
             /\ heap'[o].message # <<>>
             /\ NotDue(heap'[o], clock')]_vars

\* the episode the step of p has just covered: max(r, target) for the release
\* it dispatched
Covered(p) ==
    Max(_extract_max_episode(step[p].chosen.title, step[p].target), step[p].target)

\* C9: when the dispatch for target = current_episode + 1 of a series has
\* succeeded, current_episode becomes max(r, target) for the extractor's
\* result r, next_check_time becomes now, and the next iteration of the loop of
\* that step targets max(r, target) + 1
C9_PackAdvancement ==
    /\ [][\A p \in Procs :
            /\ DownloadReturn(p, TRUE)
            /\ ~IsMovie(heap, step[p].sub)
            /\ step[p].target = heap[step[p].sub].current_episode + 1
            => /\ heap'[step[p].sub].current_episode = Covered(p)
               /\ heap'[step[p].sub].next_check_time = TimeStr(clock')
               /\ step'[p].pc = "pause"]_vars
    /\ [][\A p \in Procs :
            PauseReturn(p) /\ step'[p].pc = "fetch"
            => step'[p].target = Covered(p) + 1]_vars

\* the immediate check of a series added with start episode 1 and
\* total_episodes = 2 is in its second iteration, its first having dispatched
\* episode 1 alone, and no scheduler pass has begun since the add
FirstCheckAtEpisode2(t) ==
    /\ passes = 1
    /\ task[t].req.start_episode = 1
    /\ step[t].pc = "fetch" /\ step[t].loops = 2 /\ step[t].target = 2
    /\ heap[step[t].sub].total_episodes = 2

\* the Subscription o, once it exists
Record(o) == IF o \in DOMAIN heap THEN heap[o] ELSE NewSubscription(NoReq, 0)

\* a check by the scheduler begins on the subscription o, which the first
\* check left at episode 1 of 2, with no other step on o in flight
LaterCheckBegins(o) ==
    /\ Record(o).total_episodes = 2 /\ Record(o).current_episode = 1
    /\ Record(o).status = "active"
    /\ Stepping(o) = {Scheduler}
    /\ step[Scheduler].pc = "fetch" /\ step[Scheduler].loops = 1

\* that check has found and dispatched a release of episode 2
Episode2Dispatched(o) ==
    /\ step[Scheduler].pc = "pause" /\ step[Scheduler].sub = o
    /\ step[Scheduler].loops = 1 /\ step[Scheduler].target = 2
    /\ Covered(Scheduler) = 2

\* C10: a series is added with start episode 1 and total_episodes = 2.  Its
\* first check finds a release for episode 1 only and ends with
\* current_episode = 1, status active.  A later check that finds a release of
\* episode 2 sets current_episode = 2; the following iteration of its loop sets
\* status completed and the season-finished message, and the check ends so
C10_TwoChecksScenario ==
    /\ [][\A t \in Tasks :
            /\ FirstCheckAtEpisode2(t)
            /\ \E resources \in TvResults(2) :
                    ValidRes(resources) = <<>> /\ FetchReturn(t, resources)
            => /\ heap'[step[t].sub].current_episode = 1
               /\ heap'[step[t].sub].status = "active"
               /\ step'[t].pc = "none"
               /\ task'[t].result.success]_vars
    /\ \A o \in 1..MaxObjects :
          [](LaterCheckBegins(o) =>
                [](Episode2Dispatched(o) =>
                      /\ Record(o).current_episode = 2
                      /\ Record(o).status = "active"
                      /\ Record(o).message # <<"finished">>
                      /\ [](step[Scheduler].pc = "none" =>
                                /\ Record(o).current_episode = 2
                                /\ Record(o).status = "completed"
                                /\ Record(o).message = <<"finished">>)))

\* the first check has left the series at episode 1 of 2 and deferred it; the
\* later check, in the scheduler's first pass over it, once it was due, has
\* dispatched episode 2 and is about to go into the following iteration
C10_Witness ==
    \E o \in DOMAIN heap :
        /\ Episode2Dispatched(o)
        /\ Stepping(o) = {Scheduler}
        /\ passes = 2 /\ sched.now >= DeferHours * HourTicks
        /\ heap[o].total_episodes = 2 /\ heap[o].current_episode = 2
        /\ heap[o].status = "active"
        /\ heap[o].message[1] = "added" /\ heap[o].message[2] = 2
        /\ \A t \in Tasks : task[t].pc \in {"idle", "done"}

\* C11: the cancellation of the scheduler task takes effect between
\* subscriptions only: the scheduler's loop is never stopped while a step of
\* it is in flight, so a step that has asked the storage backend for a
\* download always gets to apply the result
C11_CancelBetweenSubscriptions ==
    [][sched'.pc = "cancelled" /\ sched.pc # "cancelled"
          => step[Scheduler].pc = "none"]_vars

\* the list and the now of the pass the scheduler is in, or begins in this action
PassList == IF sched.pc = "step" THEN SchedList ELSE subscriptions
PassNow == IF sched.pc = "step" THEN sched.now ELSE clock'

\* the positions of PassList the for loop reaches in this action
Reached ==
    LET first == IF sched.pc = "step" THEN sched.idx + 1 ELSE 1
        last == IF sched'.pc = "step" THEN sched'.idx ELSE Len(PassList)
    IN IF ndel' = ndel /\ sched' # sched /\ sched'.pc \in {"step", "sleep"}
       THEN first..last ELSE {}

\* status is not completed and next_check_time is not later than now
Eligible(sub, now) == sub.status # "completed" /\ ~Later(sub, now)

\* the step was invoked on position i in this action: it is in flight, or it
\* has returned and the loop has written last_check_time
SteppedAt(i) ==
    LET o == PassList[i]
    IN IF sched'.pc = "step" /\ sched'.idx = i
       THEN step'[Scheduler].pc # "none" /\ step'[Scheduler].sub = o
       ELSE /\ heap'[o].last_check_time = TimeStr(PassNow)
            /\ heap[o].last_check_time # TimeStr(PassNow)

\* the loop went past position i: no step, no field written
PassedOver(i) ==
    /\ heap'[PassList[i]] = heap[PassList[i]]
    /\ ~(sched'.pc = "step" /\ sched'.idx = i)

\* C12: a scheduler pass invokes the step for exactly the subscriptions of
\* its list that are not completed and whose next_check_time is not later
\* than the pass's now; a subscription that is not completed and whose
\* next_check_time is missing or unparseable is stepped
C12_PassStepsExactlyDue ==
    [][\A i \in Reached :
          LET sub == heap[PassList[i]]
          IN /\ IF Eligible(sub, PassNow) THEN SteppedAt(i) ELSE PassedOver(i)
             /\ sub.status # "completed" /\ sub.next_check_time.kind \in {"none", "bad"}
                => SteppedAt(i)]_vars

\* the pass has gone past a completed first record and is stepping the second,
\* whose next_check_time is unparseable
C12_Witness ==
    /\ sched.pc = "step" /\ sched.idx = 2
    /\ step[Scheduler].pc = "fetch" /\ step[Scheduler].sub = SchedList[2]
    /\ heap[SchedList[1]].status = "completed"
    /\ heap[SchedList[1]].last_check_time = NoTime
    /\ heap[SchedList[2]].next_check_time = BadTime

\* C13: the scheduler writes the file only at the end of a pass, once, and it
\* does so whenever the pass has changed a subscription, a change that is only
\* the error message of a caught exception included; a pass that begins and
\* ends without a change writes nothing
C13_PassPersistsOnce ==
    [][/\ ndel' = ndel
       /\ sched' # sched \/ step'[Scheduler] # step[Scheduler]
       /\ sched'.pc \in {"step", "sleep"}
       => /\ sched'.pc = "step" => saves' = 0 /\ file' = file
          /\ sched'.pc = "sleep" =>
                /\ saves' <= 1
                /\ heap' # heap => saves' = 1 /\ file' = Snapshot(heap', subscriptions')
                /\ sched.pc # "step" /\ heap' = heap => saves' = 0]_vars

\* the Subscription the call of handler t has appended or appends in this action
NewRecord(t) == IF step[t].pc # "none" THEN step[t].sub ELSE Len(heap')

\* the messages add_subscription itself gives a new record, before any check
AddMessages == {"subscribed", "subscribed_nofolder", "wait_release"}

\* C14: when add_subscription returns success, a check of the new subscription
\* has run to its end (its message is the outcome of a check) and the file
\* holds the records as that check left them
C14_CheckedBeforeSuccess ==
    [][\A t \in Tasks :
          task[t].pc # "done" /\ task'[t].pc = "done" /\ task'[t].result.success
          => /\ heap'[NewRecord(t)].message[1] \notin AddMessages
             /\ file' = Snapshot(heap', subscriptions')]_vars

\* C15: when the metadata lookup of add_subscription raises, the call returns
\* success = False and nothing else happens: no record is appended, the file
\* is not written, no step is begun, and the scheduler, the steps in flight and
\* the records there are stay as they were
C15_MetadataFailureAbortsAdd ==
    [][\A t \in Tasks :
          /\ AddMetaRaise(t) => task'[t].pc = "done" /\ ~task'[t].result.success
          /\ task[t].pc = "meta" /\ task'[t].pc = "done" /\ ~task'[t].result.success
             => /\ task'[t].new_sub = None
                /\ subscriptions' = subscriptions /\ heap' = heap
                /\ file' = file /\ saves' = 0
                /\ step' = step /\ sched' = sched /\ is_running' = is_running
                /\ \A u \in Tasks \ {t} : task'[u] = task[u]]_vars

\* an add has failed on its metadata lookup beside a subscription of the list
C15_Witness ==
    \E t \in Tasks :
        /\ task[t].pc = "done"
        /\ task[t].result = [success |-> FALSE, message |-> "init_failed"]
        /\ Len(subscriptions) = 1 /\ Len(heap) = 1
        /\ file = Snapshot(heap, subscriptions)

\* C16: when the folder of a series cannot be resolved (get_target_cid raises)
\* add_subscription returns failure and creates no subscription
C16_PathFailureAbortsAdd ==
    [][\A t \in Tasks :
          AddCidRaise(t)
          => /\ task'[t].pc = "done" /\ ~task'[t].result.success
             /\ subscriptions' = subscriptions /\ heap' = heap
             /\ file' = file]_vars

\* the releases a lookup can return that are not of a direct kind
ShareReleases == {r \in {RelSingle, RelPack, RelZh, RelNoLink, RelShare} :
                    r.link_type \notin {"magnet", "ed2k"}}

\* C17: the storage backend is asked only for releases of kind magnet or ed2k
\* with a non-empty link; a 115_share release is never dispatched, and the
\* dispatcher, handed one, fails at once without a storage request
C17_OnlyDirectLinksDispatched ==
    /\ \A p \in Procs :
          step[p].pc = "dl"
          => /\ step[p].chosen.link_type \in {"magnet", "ed2k"}
             /\ step[p].chosen.link # <<>>
    /\ \A p \in Procs : \A r \in ShareReleases :
          step[p].pc = "fetch"
          => LET d == Dispatch(heap, step[p], r, clock)
             IN /\ d.ret /\ d.st.pc = "none"
                /\ d.heap[step[p].sub].message[1] \in {"dl_failed", "movie_dl_failed"}

\* the lookup of a movie has returned a 115_share release of 4 GB before a
\* magnet release of 1 GB, and the storage backend is asked for the magnet one
C17_Witness ==
    \E p \in Procs :
        /\ step[p].pc = "dl" /\ IsMovie(heap, step[p].sub)
        /\ step[p].chosen = RelSingle
        /\ <<RelShare, RelSingle>> \in MovieResults

\* the movie whose step p has in flight is left active and deferred by 8 hours
MovieDeferred(p, msg) ==
    LET o == step[p].sub
    IN /\ heap'[o].status = "active"
       /\ heap'[o].message = msg
       /\ heap'[o].next_check_time = TimeStr(clock' + DeferHours * HourTicks)
       /\ step'[p].pc # "dl"

\* C18: past the release gate, a movie becomes completed exactly when the
\* dispatch of the chosen release has succeeded.  With no accepted release it
\* stays active, deferred by 8 hours with the no-resource message, and
\* nothing is dispatched; with a failed dispatch it stays active, deferred by
\* 8 hours with the failure message
C18_MovieResolution ==
    [][\A p \in Procs :
          step[p].pc # "none" /\ IsMovie(heap, step[p].sub)
          => /\ \A resources \in MovieResults :
                   FetchReturn(p, resources) /\ ValidRes(resources) = <<>>
                   => MovieDeferred(p, <<"movie_no_res">>)
             /\ DownloadReturn(p, FALSE) => MovieDeferred(p, <<"movie_dl_failed">>)
             /\ DownloadReturn(p, TRUE)
                => /\ heap'[step[p].sub].status = "completed"
                   /\ heap'[step[p].sub].message[1] = "got"
             /\ heap[step[p].sub].status # heap'[step[p].sub].status
                => \E q \in Procs : step[q].sub = step[p].sub /\ DownloadReturn(q, TRUE)]_vars

\* a movie whose release_date is known and later than the date of this action
Gated(sub) ==
    /\ sub.media_type = "movie"
    /\ sub.release_date # None /\ sub.release_date[1] > DateStr(clock')

\* the step on o has ended at the release gate: the awaiting-release message,
\* next_check_time one day ahead, status active, every other field as it
\* was, and no lookup or dispatch awaited for o
GateOutcome(o, before) ==
    /\ heap'[o] = [before EXCEPT
                      !.message = <<"not_released", before.release_date[1]>>,
                      !.next_check_time = TimeStr(clock' + WaitDays * DayTicks),
                      !.last_check_time = heap'[o].last_check_time]
    /\ heap'[o].status = "active"
    /\ \A p \in Procs : step'[p].pc = "none" \/ step'[p].sub # o

\* C19: a step on a movie whose release_date is known and later than today
\* sets the awaiting-release message, puts next_check_time one day ahead,
\* leaves the status active and makes no lookup and no dispatch, in a
\* scheduler pass and in the immediate check of add_subscription alike
C19_MovieReleaseGate ==
    [][/\ \A i \in Reached :
             LET o == PassList[i]
             IN Gated(heap[o]) /\ Eligible(heap[o], PassNow)
                => /\ GateOutcome(o, heap[o])
                   /\ heap'[o].last_check_time = TimeStr(PassNow)
       /\ \A t \in Tasks : \A details \in MovieDetails :
             AddMovieMeta(t, details) /\ Gated(heap'[Len(heap')])
             => /\ GateOutcome(Len(heap'), heap'[Len(heap')])
                /\ heap'[Len(heap')].last_check_time = NoTime
                /\ task'[t].pc = "done" /\ task'[t].result.success]_vars

\* a scheduler pass has stopped a movie loaded from the file at the release
\* gate: it is deferred to the next day and the pass is over
C19_Witness ==
    \E o \in DOMAIN heap :
        /\ heap[o].media_type = "movie" /\ heap[o].release_date = Some(1)
        /\ heap[o].message = <<"not_released", 1>>
        /\ heap[o].last_check_time = TimeStr(clock)
        /\ heap[o].next_check_time = TimeStr(clock + WaitDays * DayTicks)
        /\ heap[o].status = "active"
        /\ sched.pc = "sleep" /\ step[Scheduler].pc = "none"

\* total_episodes is known and the next target is beyond it
SeasonOver(sub) == sub.total_episodes > 0 /\ sub.current_episode + 1 > sub.total_episodes

\* C20: an iteration of the loop of a series step that finds total_episodes
\* known and target = current_episode + 1 beyond it sets status completed and
\* the season-finished message and ends the step, with no lookup and no
\* dispatch; and a series becomes completed only so
C20_SeriesCompletion ==
    [][\A o \in DOMAIN heap :
          heap[o].media_type = "tv"
          => /\ \A p \in Procs :
                   PauseReturn(p) /\ step[p].sub = o /\ SeasonOver(heap[o])
                   => /\ heap'[o].status = "completed"
                      /\ heap'[o].message = <<"finished">>
                      /\ step'[p].pc = "none" \/ step'[p].sub # o
             /\ \A i \in Reached :
                   PassList[i] = o /\ Eligible(heap[o], PassNow) /\ SeasonOver(heap[o])
                   => /\ heap'[o].status = "completed"
                      /\ heap'[o].message = <<"finished">>
                      /\ step'[Scheduler].pc = "none" \/ step'[Scheduler].sub # o
             /\ heap[o].status # "completed" /\ heap'[o].status = "completed"
                => /\ SeasonOver(heap[o])
                   /\ heap'[o].message = <<"finished">>
                   /\ heap'[o].current_episode = heap[o].current_episode
                   /\ \A p \in Procs :
                         step'[p].pc # "none" /\ step'[p].sub = o => step'[p] = step[p]
                   /\ \/ \E p \in Procs : PauseReturn(p) /\ step[p].sub = o
                      \/ \E i \in Reached : PassList[i] = o]_vars

\* a series of two episodes has been completed after the dispatch of episode 2
C20_Witness ==
    \E o \in DOMAIN heap :
        /\ heap[o].media_type = "tv" /\ heap[o].status = "completed"
        /\ heap[o].message = <<"finished">>
        /\ heap[o].total_episodes = 2 /\ heap[o].current_episode = 2
        /\ Stepping(o) = {}

\* a series whose next target has a known air date later than the date of
\* this action, the season not being over
AirGated(sub) ==
    /\ sub.media_type = "tv" /\ ~SeasonOver(sub)
    /\ AirDate(sub, sub.current_episode + 1) # None
    /\ AirDate(sub, sub.current_episode + 1)[1] > DateStr(clock')

\* the step of p on o has ended at the air-date gate: the awaiting-episode
\* message for the target, next_check_time one day ahead, current_episode and
\* every other field as they were, and p awaits no lookup or dispatch for o
AirGateOutcome(p, o, before) ==
    /\ heap'[o] = [before EXCEPT
                      !.message = <<"wait_air", before.current_episode + 1,
                                    AirDate(before, before.current_episode + 1)[1]>>,
                      !.next_check_time = TimeStr(clock' + WaitDays * DayTicks),
                      !.last_check_time = heap'[o].last_check_time]
    /\ heap'[o].current_episode = heap[o].current_episode
    /\ step'[p].pc = "none" \/ step'[p].sub # o

\* C21: an iteration of the loop of a series step that finds the air date of
\* target = current_episode + 1 known and in the future sets the
\* awaiting-episode message, puts next_check_time one day ahead and ends the
\* step: the target and the later episodes are neither looked up nor
\* dispatched, and current_episode stays as it was
C21_AirDateGate ==
    [][\A o \in DOMAIN heap :
          /\ \A p \in Procs :
                /\ PauseReturn(p) /\ step[p].sub = o
                /\ step[p].loops < max_loops /\ AirGated(heap[o])
                => AirGateOutcome(p, o, heap[o])
          /\ \A i \in Reached :
                PassList[i] = o /\ Eligible(heap[o], PassNow) /\ AirGated(heap[o])
                => AirGateOutcome(Scheduler, o, heap[o])]_vars

\* episode 1 has been dispatched and the step has stopped at episode 2, which
\* airs tomorrow: the series waits a day with current_episode = 1
C21_Witness ==
    \E o \in DOMAIN heap :
        /\ heap[o].media_type = "tv" /\ heap[o].status = "active"
        /\ heap[o].current_episode = 1
        /\ heap[o].message = <<"wait_air", 2, 1>>
        /\ heap[o].next_check_time = TimeStr(clock + WaitDays * DayTicks)
        /\ Stepping(o) = {}

\* the step of p on a series has ended on a deferral of DeferHours with the
\* message msg: message and next_check_time are written, current_episode,
\* status and every other field stay, and p awaits nothing more for the series
TvDeferred(p, msg) ==
    LET o == step[p].sub
    IN /\ heap'[o] = [heap[o] EXCEPT
                         !.message = msg,
                         !.next_check_time = TimeStr(clock' + DeferHours * HourTicks),
                         !.last_check_time = heap'[o].last_check_time]
       /\ heap'[o].current_episode = heap[o].current_episode
       /\ heap'[o].status = heap[o].status
       /\ step'[p].pc = "none" \/ step'[p].sub # o

\* C22: when the lookup for the target of a series step returns no release of
\* an accepted link kind, the step defers the next check by 8 hours, sets the
\* no-resource message for that episode and ends: nothing is dispatched, and
\* current_episode and status stay as they were
C22_SeriesNoResource ==
    [][\A p \in Procs :
          step[p].pc = "fetch" /\ ~IsMovie(heap, step[p].sub)
          => \A resources \in FetchResults(heap, step[p]) :
                FetchReturn(p, resources) /\ ValidRes(resources) = <<>>
                => TvDeferred(p, <<"no_res", step[p].target>>)]_vars

\* the lookup for episode 1 has returned nothing to dispatch: the series is
\* active at current_episode = 0 and deferred by 8 hours
C22_Witness ==
    \E o \in DOMAIN heap :
        /\ heap[o].media_type = "tv" /\ heap[o].status = "active"
        /\ heap[o].current_episode = 0
        /\ heap[o].message = <<"no_res", 1>>
        /\ heap[o].next_check_time = TimeStr(clock + DeferHours * HourTicks)
        /\ Stepping(o) = {}

\* C23: when the dispatch of the chosen release of a series step fails, the
\* step defers the next check by 8 hours, sets the episode-failed message,
\* which is not the no-resource message, and ends without advancing
\* current_episode; so the episode that failed is the target of the next check
C23_SeriesDispatchFailure ==
    /\ [][\A p \in Procs :
             step[p].pc = "dl" /\ ~IsMovie(heap, step[p].sub) /\ DownloadReturn(p, FALSE)
             => /\ TvDeferred(p, <<"dl_failed", step[p].target>>)
                /\ heap'[step[p].sub].message # <<"no_res", step[p].target>>]_vars
    /\ [](\A o \in DOMAIN heap :
             heap[o].message # <<>> /\ heap[o].message[1] = "dl_failed"
             => heap[o].current_episode + 1 = heap[o].message[2])

(***************************************************************************)
(* The immediate check of a series against a resource client that has an   *)
(* accepted release for every episode number.                               *)
(***************************************************************************)
\* what fetch_tv_episode can return for any episode: nothing, the episode,
\* or the episode and a pack
EveryEpisodeResults == {<<>>, <<RelSingle>>, <<RelSingle, RelPack>>}

\* an await of the step of p returns: the thread of asyncio.to_thread ends,
\* asyncio.sleep(2) is over
StepReturns(p) ==
    \/ \E resources \in EveryEpisodeResults : FetchReturn(p, resources)
    \/ FetchRaise(p)
    \/ \E success \in BOOLEAN : DownloadReturn(p, success)
    \/ PauseReturn(p)

NextLoop ==
    \/ SchedStart
    \/ \E req \in TvRequests : AddBegin(1, req, MaxObjects)
    \/ \E season_info \in SeasonInfos : AddSeasonMeta(1, season_info)
    \/ AddMetaRaise(1)
    \/ \E cid \in Cids : AddCid(1, cid)
    \/ AddCidRaise(1)
    \/ \E resources \in EveryEpisodeResults : FetchReturn(1, resources)
    \/ FetchRaise(1)
    \/ \E success \in BOOLEAN : DownloadReturn(1, success)
    \/ PauseReturn(1)

\* the event loop resumes a coroutine whose await has returned
SpecLoop == Init /\ [][NextLoop]_vars /\ WF_vars(StepReturns(1))

\* C24: a series step makes at most max_loops = 50 iterations of its loop,
\* each with at most one lookup and at most one dispatch, and it always
\* comes to its end, whatever the resource client returns: also when there is
\* an accepted release for every episode and total_episodes is unknown
C24_SeriesLoopBound ==
    /\ [](\A p \in Procs : step[p].loops <= max_loops)
    /\ [][\A p \in Procs :
             /\ PauseReturn(p) /\ step[p].loops = max_loops => step'[p].pc = "none"
             /\ step'[p].pc = "fetch" /\ step'[p] # step[p]
                => step'[p].loops = (IF step[p].pc = "pause" THEN step[p].loops ELSE 0) + 1
             /\ step'[p].pc = "dl" /\ step'[p] # step[p]
                => step[p].pc = "fetch" /\ step'[p].loops = step[p].loops]_vars
    /\ \A p \in Procs : (step[p].pc # "none") ~> (step[p].pc = "none")

\* a step has dispatched an episode in each of its 50 iterations for a series
\* whose total_episodes is unknown, and has returned
C24_Witness ==
    \E o \in DOMAIN heap :
        /\ heap[o].media_type = "tv" /\ heap[o].total_episodes = 0
        /\ heap[o].current_episode >= max_loops
        /\ heap[o].status = "active" /\ heap[o].message[1] = "added"
        /\ Stepping(o) = {}
        /\ \E t \in Tasks : task[t].pc = "done" /\ task[t].result.success

(***************************************************************************)
(* The choice among the releases of one lookup: a movie is subscribed to    *)
(* and looked up, by its immediate check and by the scheduler, in an index   *)
(* that answers with any list of up to MaxCandidates releases.              *)
(***************************************************************************)
\* a release of the size of RelSingle, written in another unit
RelTie == [title |-> <<"t", "i", "e">>, size |-> <<"1", "0", "2", "4", " ", "M", "B">>,
           link |-> <<"e">>, link_type |-> "ed2k"]
\* a release with no size string, and one whose number float() rejects
RelUnsized == [title |-> <<"n", "o">>, size |-> <<>>, link |-> <<"m">>,
               link_type |-> "magnet"]
RelBadSize == [title |-> <<"b", "a", "d">>, size |-> <<"1", ".", "2", ".", "3", "G", "B">>,
               link |-> <<"m">>, link_type |-> "magnet"]

ChoiceReleases == {RelSingle, RelTie, RelPack, RelUnsized, RelBadSize, RelShare}
ChoiceResults == UNION {[1..n -> ChoiceReleases] : n \in 1..MaxCandidates}

NextChoice ==
    \/ SchedStart
    \/ \E t \in WakeTimes : SchedWake(t)
    \/ \E req \in MovieRequests : AddBegin(1, req, MaxObjects)
    \/ \E details \in MovieDetails : AddMovieMeta(1, details)
    \/ AddMetaRaise(1)
    \/ \E p \in {Scheduler, 1} : \E resources \in ChoiceResults : FetchReturn(p, resources)
    \/ \E p \in {Scheduler, 1} : FetchRaise(p)
    \/ \E p \in {Scheduler, 1}, success \in BOOLEAN : DownloadReturn(p, success)

SpecChoice == Init /\ [][NextChoice]_vars

\* the candidates of a lookup that no candidate exceeds in parsed size
Largest(v) ==
    {i \in DOMAIN v :
        \A j \in DOMAIN v : ~SizeLess(_parse_size(v[i].size), _parse_size(v[j].size))}

\* C25: of the accepted candidates of a lookup the step dispatches the one of
\* the largest parsed size, and of several of that size the first in the order
\* of the lookup; a candidate whose size string is empty or cannot be parsed
\* ranks as size 0, so it is dispatched only when no candidate has a size
C25_LargestReleaseChosen ==
    \A p \in Procs :
        step[p].pc = "fetch"
        => \A resources \in ChoiceResults :
              ValidRes(resources) # <<>>
              => LET v == ValidRes(resources)
                     r == Fetched(heap, step[p], resources, clock)
                 IN /\ r.st.pc = "dl"
                    /\ r.st.chosen = v[MinOf(Largest(v))]
                    /\ r.st.chosen \in {RelUnsized, RelBadSize}
                       => \A j \in DOMAIN v : v[j] \in {RelUnsized, RelBadSize}

\* the storage backend is asked for the release of 1024 MB: of a lookup that
\* returned it before the release of 1GB and a release without a size, it
\* is the first of the two largest
C25_Witness ==
    \E p \in Procs :
        /\ step[p].pc = "dl" /\ step[p].chosen = RelTie
        /\ <<RelUnsized, RelTie, RelSingle>> \in ChoiceResults
        /\ Largest(<<RelUnsized, RelTie, RelSingle>>) = {2, 3}

(***************************************************************************)
(* The collaborators by their outcomes: the scheduler's passes over a       *)
(* loaded list, the resource client and the storage client answering or     *)
(* failing.                                                                 *)
(***************************************************************************)
\* nullbr_service.fetch_movie / fetch_tv_episode when the SDK raises (a rate
\* limit, a network error) at its first call: the except of the service
\* prints the error and the resources collected so far, none, are returned
FetchRateLimited(p) == FetchReturn(p, <<>>)

\* what the storage backend does with one add_offline_tasks call: the task is
\* added, the task is added and the notification of the media organizer
\* raises, the backend refuses the task (state false), or the call raises
StorageOutcomes == {"added", "added_notify_failed", "refused", "raised"}

\* add_offline_tasks with the notification outside its try: an exception of
\* strm_service.notify_gen_by_path leaves the call
AddOfflineTasksNotifyUnguarded(outcome) ==
    [raised |-> outcome \in {"raised", "added_notify_failed"},
     success |-> outcome = "added"]

\* p115_service.add_offline_tasks: {"success": False} where resp has no
\* state, {"success": True} behind the notification and its except, or the
\* exception of get_target_cid / offline_add_urls
add_offline_tasks(outcome) ==
    [raised |-> outcome = "raised",
     success |-> outcome \in {"added", "added_notify_failed"}]

\* _perform_download behind its await: res.get('success', False), or False
\* from its except Exception
_perform_download(outcome) ==
    LET res == add_offline_tasks(outcome)
    IN IF res.raised THEN FALSE ELSE res.success

\* the await of add_offline_tasks is over
StorageReturn(p, outcome) == DownloadReturn(p, _perform_download(outcome))

NextClients ==
    \/ SchedStart
    \/ \E t \in WakeTimes : SchedWake(t)
    \/ \E resources \in FetchResults(heap, step[Scheduler]) :
            FetchReturn(Scheduler, resources)
    \/ FetchRateLimited(Scheduler)
    \/ FetchRaise(Scheduler)
    \/ \E outcome \in StorageOutcomes : StorageReturn(Scheduler, outcome)
    \/ PauseReturn(Scheduler)

SpecClients == InitLoad /\ [][NextClients]_vars

\* the messages a step sets when a lookup returned nothing to dispatch
NoResourceMessages(st) == {<<"no_res", st.target>>, <<"movie_no_res">>}

\* C26: a rate-limit-style error of the resource client defers the next check
\* by 8 hours and leaves the subscription active, as an empty lookup does, but
\* the message it sets is not the one of a lookup that returned no release
C26_RateLimitDistinguishable ==
    [][\A p \in Procs :
          step[p].pc = "fetch" /\ FetchRateLimited(p)
          => LET o == step[p].sub
             IN /\ heap'[o].next_check_time = TimeStr(clock' + DeferHours * HourTicks)
                /\ heap'[o].status = "active"
                /\ heap'[o].message \notin NoResourceMessages(step[p])]_vars

\* C27: the dispatcher resolves each request it forwards to the storage
\* backend to a boolean, without repeating it: a task the backend added is a
\* success also when the notification of the media organizer fails behind it,
\* a task it refused is a failure, and an exception of the storage call is a
\* failure of the dispatch and not an exception of the step
C27_DispatchResult ==
    [][\A p \in Procs :
          step[p].pc = "dl"
          => /\ \A outcome \in StorageOutcomes :
                   StorageReturn(p, outcome)
                   => /\ DownloadReturn(p, outcome \in {"added", "added_notify_failed"})
                      /\ heap'[step[p].sub].message # <<"check_error">>
             /\ step'[p] # step[p]
                => /\ \E success \in BOOLEAN : DownloadReturn(p, success)
                   /\ step'[p].pc # "dl"]_vars

\* a dispatch has come back as a success, as it does when the task was added
\* and the notification failed: episode 1 is recorded and the step pauses
C27_Witness ==
    /\ step[Scheduler].pc = "pause"
    /\ heap[step[Scheduler].sub].current_episode = 1
    /\ heap[step[Scheduler].sub].message[1] = "added"
    /\ _perform_download("added_notify_failed")
    /\ ~_perform_download("raised")

\* the fields of a subscription that are set when it is created
CreationFields(sub) ==
    <<sub.id, sub.media_type, sub.tmdb_id, sub.title, sub.poster_path, sub.release_date,
      sub.season_number, sub.total_episodes, sub.episode_air_dates, sub.save_cid>>

\* C28: every dispatch made for a subscription passes the save target the
\* subscription was created with, and no step and no scheduler pass changes
\* id, media_type, title, poster_path, release_date, season_number,
\* total_episodes, episode_air_dates or the save target of a subscription
C28_SaveTargetFixed ==
    /\ [](\A p \in Procs :
             step[p].pc = "dl" => step[p].to_cid = heap[step[p].sub].save_cid)
    /\ [][\A o \in DOMAIN heap : CreationFields(heap'[o]) = CreationFields(heap[o])]_vars

\* the second dispatch of a step on a series created with folder 7 is under
\* way, and it passes folder 7 as the first did
C28_Witness ==
    \E p \in Procs :
        /\ step[p].pc = "dl" /\ step[p].loops = 2
        /\ step[p].to_cid = Some(7)
        /\ heap[step[p].sub].save_cid = Some(7)
        /\ heap[step[p].sub].current_episode = 1

(***************************************************************************)
(* _extract_max_episode on the titles of releases: a series loaded at        *)
(* current_episode = n - 1 is stepped by the scheduler, the lookup for       *)
(* episode n returns a release with one of the titles below, and the step    *)
(* applies the extractor to the title and n when the dispatch has succeeded. *)
(***************************************************************************)
\* 'Show [第13-16集]'
TitleZhRange ==
    <<"S", "h", "o", "w", " ", "[", "U7B2C", "1", "3", "-", "1", "6", "U96C6", "]">>
\* 'Show.S01E13-E16.1080p'
TitleEnRange ==
    <<"S", "h", "o", "w", ".", "S", "0", "1", "E", "1", "3", "-", "E", "1", "6", ".", "1", "0", "8", "0", "p">>
\* 'Show.EP14'
TitleSingle ==
    <<"S", "h", "o", "w", ".", "E", "P", "1", "4">>
\* 'Show.2026.1080p'
TitleYear ==
    <<"S", "h", "o", "w", ".", "2", "0", "2", "6", ".", "1", "0", "8", "0", "p">>
\* 'Show.E01-2026': a range whose end is a year
TitleYearRange ==
    <<"S", "h", "o", "w", ".", "E", "0", "1", "-", "2", "0", "2", "6">>
\* 'ep13-16'
TitleEpRange ==
    <<"e", "p", "1", "3", "-", "1", "6">>
\* 'E1-E3 第13-14集': both patterns match
TitleBoth ==
    <<"E", "1", "-", "E", "3", " ", "U7B2C", "1", "3", "-", "1", "4", "U96C6">>

\* the titles with what they hold: zh, the end M of the leftmost range
\* '第N-M集', and en, the end M of the leftmost range 'E N-E M' / 'EP N-M'
ExtractCases ==
    {[title |-> TitleZhRange, zh |-> Some(16), en |-> None],
     [title |-> TitleEnRange, zh |-> None, en |-> Some(16)],
     [title |-> TitleSingle, zh |-> None, en |-> None],
     [title |-> TitleYear, zh |-> None, en |-> None],
     [title |-> TitleYearRange, zh |-> None, en |-> Some(2026)],
     [title |-> TitleEpRange, zh |-> None, en |-> Some(16)],
     [title |-> TitleBoth, zh |-> Some(14), en |-> Some(3)],
     [title |-> RelZh.title, zh |-> Some(2), en |-> None],
     [title |-> RelPack.title, zh |-> None, en |-> Some(3)]}

\* the episode numbers the extractor is applied to
ExtractTargets == {1, 13, 14}

ReleaseTitled(title) ==
    [title |-> title, size |-> <<"1", "G", "B">>, link |-> <<"m">>, link_type |-> "magnet"]

\* fetch_tv_episode: a release for the episodes of ExtractTargets, under any
\* of the titles
ExtractResults(episode_number) ==
    IF episode_number \in ExtractTargets
    THEN {<<ReleaseTitled(c.title)>> : c \in ExtractCases}
    ELSE {<<>>}

LoadedAt ==
    {[NewSubscription(req, 0) EXCEPT
          !.season_number = Some(req.season_number), !.current_episode = n - 1] :
        req \in TvRequests, n \in ExtractTargets}

InitExtract ==
    /\ clock = 0
    /\ \E tv \in LoadedAt : heap = <<tv>>
    /\ subscriptions = [i \in DOMAIN heap |-> i]
    /\ file = heap
    /\ saves = 0
    /\ is_running = FALSE
    /\ sched = SchedOff
    /\ task = [t \in Tasks |-> IdleTask]
    /\ step = [p \in Procs |-> Idle]
    /\ nadds = 0
    /\ ndel = 0
    /\ passes = 0

NextExtract ==
    \/ SchedStart
    \/ \E t \in WakeTimes : SchedWake(t)
    \/ \E resources \in ExtractResults(step[Scheduler].target) :
            FetchReturn(Scheduler, resources)
    \/ \E success \in BOOLEAN : DownloadReturn(Scheduler, success)
    \/ PauseReturn(Scheduler)

SpecExtract == InitExtract /\ [][NextExtract]_vars

\* the case of ExtractCases of a title
CaseOf(title) == CHOOSE c \in ExtractCases : c.title = title

\* the steps that have a release in hand: its dispatch is awaited, or it has
\* succeeded and the extractor has been applied to its title
Extracting == {p \in Procs : step[p].pc \in {"dl", "pause"}}

NotARecord == [garbage |-> TRUE]
IsRecord(item) == DOMAIN item = DOMAIN NewSubscription(NoReq, 0)

\* the record of a series as an earlier run has saved it
StoredTv ==
    {[NewSubscription(req, 0) EXCEPT
          !.season_number = Some(req.season_number), !.total_episodes = MaxEpisodes] :
        req \in TvRequests}

\* the data file before the service starts
Disks ==
    {[exists |-> FALSE, content |-> <<>>]} \cup
    {[exists |-> TRUE, content |-> c] :
        c \in {<<>>, <<NotARecord>>} \cup
              {<<tv>> : tv \in StoredTv} \cup {<<tv, NotARecord>> : tv \in StoredTv}}

\* _ensure_data_file: a missing file is created with the content []
_ensure_data_file(disk) == IF disk.exists THEN disk.content ELSE <<>>

\* _load_data: [Subscription(**item) for item in json.load(f)], and [] from
\* its except Exception
_load_data(content) ==
    IF \A i \in DOMAIN content : IsRecord(content[i]) THEN content ELSE <<>>

\* SubscriptionService.__init__
InitStore ==
    /\ clock = 0
    /\ \E disk \in Disks :
          /\ file = _ensure_data_file(disk)
          /\ heap = _load_data(file)
    /\ subscriptions = [i \in DOMAIN heap |-> i]
    /\ saves = 0
    /\ is_running = FALSE
    /\ sched = SchedOff
    /\ task = [t \in Tasks |-> IdleTask]
    /\ step = [p \in Procs |-> Idle]
    /\ nadds = 0
    /\ ndel = 0
    /\ passes = 0

NextStore ==
    \/ SchedStart
    \/ \E t \in WakeTimes : SchedWake(t)
    \/ \E req \in MovieRequests : AddBegin(1, req, MaxObjects + 1)
    \/ \E details \in MovieDetails : AddMovieMeta(1, details)
    \/ AddMetaRaise(1)
    \/ \E p \in {Scheduler, 1} : \E resources \in FetchResults(heap, step[p]) :
            FetchReturn(p, resources)
    \/ \E p \in {Scheduler, 1} : FetchRaise(p)
    \/ \E p \in {Scheduler, 1}, success \in BOOLEAN : DownloadReturn(p, success)
    \/ \E p \in {Scheduler, 1} : PauseReturn(p)
    \/ \E req \in Requests : DeleteSubscription(SubId(req))

SpecStore == InitStore /\ [][NextStore]_vars

\* every item of the file is a record a Subscription can be built from
Loadable(content) == \A i \in DOMAIN content : IsRecord(content[i])

\* C30: the service starts with the records of the file as its list when the
\* file can be loaded, and with the empty list when the file was missing or
\* cannot be loaded; and every save writes the whole list, so behind an action
\* that saved the file holds the records of the list as they are in memory
C30_StoreLoadAndSave ==
    /\ subscriptions = [i \in DOMAIN heap |-> i]
    /\ Loadable(file) => heap = file
    /\ ~Loadable(file) => heap = <<>>
    /\ [][saves' > 0
          => file' = [i \in DOMAIN subscriptions' |-> heap'[subscriptions'[i]]]]_vars

\* the service runs on a file it could not load: the list is empty, a pass of
\* the scheduler is over, and the file is as it was found
C30_Witness ==
    /\ ~Loadable(file)
    /\ subscriptions = <<>> /\ heap = <<>>
    /\ is_running /\ passes >= 1 /\ sched.pc = "sleep"

\* the record of the series says that a release targeting episode n has been
\* dispatched with success
SaysDispatched(sub, n) ==
    /\ sub.message # <<>>
    /\ sub.message[1] \in {"added", "pack"}
    /\ sub.message[2] = n

\* C31: a release targeting an episode of a series is dispatched with success
\* at most once, and a movie has at most one successful dispatch: no dispatch
\* succeeds for an episode whose successful dispatch the record already
\* shows, nor for a movie that is completed
C31_DispatchedAtMostOnce ==
    [][\A p \in Procs :
          step[p].pc = "dl" /\ DownloadReturn(p, TRUE)
          => IF IsMovie(heap, step[p].sub)
             THEN heap[step[p].sub].status # "completed"
             ELSE ~SaysDispatched(heap[step[p].sub], step[p].target)]_vars

\* C32: current_episode of a series never decreases: it is changed only by a
\* dispatch that succeeds, and every dispatch that succeeds raises it by at
\* least 1
C32_CurrentEpisodeGrows ==
    [][\A o \in DOMAIN heap :
          heap[o].media_type = "tv"
          => /\ heap'[o].current_episode >= heap[o].current_episode
             /\ heap'[o].current_episode # heap[o].current_episode
                => \E p \in Procs :
                      step[p].pc = "dl" /\ step[p].sub = o /\ DownloadReturn(p, TRUE)
             /\ \A p \in Procs :
                   step[p].pc = "dl" /\ step[p].sub = o /\ DownloadReturn(p, TRUE)
                   => heap'[o].current_episode >= heap[o].current_episode + 1]_vars


\* the Subscription objects of self.subscriptions
Listed == {subscriptions[i] : i \in DOMAIN subscriptions}

\* C33: once delete_subscription has removed a subscription from the list, no
\* step calls _perform_download for it
C33_NoDispatchAfterDelete ==
    [][\A p \in Procs :
          step[p].pc = "fetch" /\ step'[p].pc = "dl"
          => step'[p].sub \in Listed]_vars


\* the ids of the records of a list
Ids(recs) == {recs[i].id : i \in DOMAIN recs}

\* the ids of the records of self.subscriptions
ListIds == Ids(Snapshot(heap, subscriptions))

\* C34: a deleted subscription stays deleted: delete_subscription(id) leaves
\* no record of that id in the list or in the file, an id enters the list
\* only where add_subscription appends it, and the file never holds an id
\* that the list does not hold, whichever step was in flight at the delete
C34_DeletedStaysDeleted ==
    /\ [](Ids(file) \subseteq ListIds)
    /\ [][/\ \A req \in Requests :
                DeleteSubscription(SubId(req))
                => SubId(req) \notin ListIds' \cup Ids(file')
          /\ \A id \in ListIds' \ ListIds :
                \E t \in Tasks :
                    /\ task[t].pc \in {"meta", "cid"}
                    /\ task[t].new_sub[1].id = id
                    /\ task'[t].pc \in {"step", "done"}]_vars

\* a step is in flight on a deleted record, and the save that just ran left
\* the record out of the file
C34_Witness ==
    \E p \in Procs :
        /\ step[p].pc # "none"
        /\ step[p].sub \notin Listed
        /\ heap[step[p].sub].id \notin ListIds \cup Ids(file)
        /\ saves = 1
        /\ file # <<>>
        /\ \E t \in Tasks : task[t].pc = "done" /\ task[t].result.success


(***************************************************************************)
(* The service on a loaded list, with a resource client that answers every *)
(* lookup with an accepted release and a storage backend that takes every  *)
(* dispatch.  The event loop is fair: start_scheduler is called at startup, *)
(* asyncio.sleep(3600) ends, and the await of a step returns.              *)
(***************************************************************************)
\* lookups that hold an accepted release: for a movie beside a 115 share,
\* for an episode alone or beside a pack
AcceptedResults(h, st) ==
    IF st.pc # "fetch" THEN {}
    ELSE IF IsMovie(h, st.sub) THEN {<<RelShare, RelSingle>>}
    ELSE {<<RelSingle>>, <<RelSingle, RelPack>>}

\* an await of the step of p returns, the lookup with an accepted release and
\* the dispatch with success
StepSucceeds(p) ==
    \/ \E resources \in AcceptedResults(heap, step[p]) : FetchReturn(p, resources)
    \/ DownloadReturn(p, TRUE)
    \/ PauseReturn(p)

\* asyncio.sleep(3600) is over
Wakes == \E t \in WakeTimes : SchedWake(t)

NextDone ==
    \/ SchedStart
    \/ Wakes
    \/ \E req \in MovieRequests : AddBegin(1, req, MaxObjects + 1)
    \/ \E details \in MovieDetails : AddMovieMeta(1, details)
    \/ AddMetaRaise(1)
    \/ StepSucceeds(1)
    \/ StepSucceeds(Scheduler)

\* the step of p is at an await that can return
Awaiting(p) ==
    \/ step[p].pc \in {"fetch", "dl"}
    \/ step[p].pc = "pause" /\ Max(clock, step[p].resume) <= MaxClock

\* weak fairness of StepSucceeds(p), with its enabling condition written out:
\* a step is not left at an await for ever
StepFair(p) == []<>(~Awaiting(p)) \/ []<><<StepSucceeds(p)>>_vars

SpecDone ==
    /\ InitLoad
    /\ [][NextDone]_vars
    /\ WF_vars(SchedStart)
    /\ WF_vars(Wakes)
    /\ StepFair(1)
    /\ StepFair(Scheduler)

\* a series with a known number of episodes, all of them aired
AllAired(sub) ==
    /\ sub.media_type = "tv"
    /\ sub.total_episodes > 0
    /\ \A e \in DOMAIN sub.episode_air_dates : sub.episode_air_dates[e] <= DateStr(clock)

\* a movie whose release date has passed
Released(sub) ==
    /\ sub.media_type = "movie"
    /\ sub.release_date # None
    /\ sub.release_date[1] <= DateStr(clock)

\* C35: with every lookup answered by an accepted release and every dispatch
\* successful, a series with a known number of episodes, all aired, and a
\* movie whose release date has passed, eventually reach status completed
C35_EventuallyCompleted ==
    \A o \in 1..(MaxObjects + 1) :
        (o \in DOMAIN heap /\ (AllAired(heap[o]) \/ Released(heap[o])))
            ~> (o \in DOMAIN heap /\ heap[o].status = "completed")

\* a series that was loaded as active and not yet due has been stepped by a
\* later pass through all its episodes and is completed, beside a released
\* movie that is completed
C35_Witness ==
    /\ \E o \in DOMAIN heap :
          /\ AllAired(heap[o]) /\ heap[o].status = "completed"
          /\ heap[o].current_episode >= heap[o].total_episodes
          /\ heap[o].last_check_time = TimeStr(HourTicks)
    /\ \E o \in DOMAIN heap :
          /\ Released(heap[o]) /\ heap[o].status = "completed"
          /\ heap[o].message[1] = "got"


(***************************************************************************)
(* start_scheduler is called again while the service runs.                 *)
(***************************************************************************)
\* start_scheduler without its first line: the call enters the loop and
\* its first pass begins at once
StartSchedulerUnguarded ==
    /\ is_running
    /\ passes < MaxPasses
    /\ BeginPass(clock)
    /\ UNCHANGED <<clock, subscriptions, is_running, task, nadds, ndel>>

\* start_scheduler with is_running set: if self.is_running: return
StartSchedulerAgain ==
    /\ is_running
    /\ sched.returned < MaxRestarts
    /\ sched' = [sched EXCEPT !.returned = @ + 1]
    /\ saves' = 0
    /\ UNCHANGED <<clock, heap, subscriptions, file, is_running, task, step, nadds, ndel,
                   passes>>

NextStart ==
    \/ SchedStart
    \/ StartSchedulerAgain
    \/ Wakes
    \/ \E req \in TvRequests : AddBegin(1, req, MaxObjects)
    \/ \E season_info \in SeasonInfos : AddSeasonMeta(1, season_info)
    \/ AddMetaRaise(1)
    \/ \E cid \in Cids : AddCid(1, cid)
    \/ AddCidRaise(1)
    \/ \E p \in {Scheduler, 1} : \E resources \in FetchResults(heap, step[p]) :
            FetchReturn(p, resources)
    \/ \E p \in {Scheduler, 1} : FetchRaise(p)
    \/ \E p \in {Scheduler, 1}, success \in BOOLEAN : DownloadReturn(p, success)
    \/ \E p \in {Scheduler, 1} : PauseReturn(p)
    \/ Cancel

SpecStart == Init /\ [][NextStart]_vars

\* C36: one polling loop at most: a call of start_scheduler that finds
\* is_running set returns without a pass and without touching the loop that
\* runs, the first call is the only one that enters the loop, and a pass
\* begins only when no pass is in flight
C36_OnePollingLoop ==
    /\ [][/\ passes' # passes
             => sched.pc \in {"off", "sleep"} /\ step[Scheduler].pc = "none"
          /\ sched'.returned # sched.returned
             => /\ is_running
                /\ sched' = [sched EXCEPT !.returned = @ + 1]
                /\ passes' = passes /\ step' = step /\ heap' = heap /\ file' = file
          /\ sched.pc = "off" /\ sched'.pc # "off" => ~is_running /\ is_running']_vars
    /\ [](sched.pc \notin {"off"} => is_running)

\* start_scheduler was called again while a pass was in flight, and the pass
\* is still in flight
C36_Witness ==
    /\ sched.returned >= 1
    /\ sched.pc = "step"
    /\ step[Scheduler].pc # "none"
    /\ passes = MaxPasses


(***************************************************************************)
(* A pass whose final _save_data raises (open or json.dump fails).  The    *)
(* exception leaves check_all_subscriptions; start_scheduler catches it     *)
(* ("except Exception"), prints, and awaits asyncio.sleep(3600).            *)
(***************************************************************************)
\* the ways the await of the scheduler's step can end: the records, the
\* flag "updated" and the clock behind the body of the for loop
StepEnds ==
    LET st == step[Scheduler]
        done(r, clk) == [h |-> StepDone(r.heap, st.sub, sched.now), upd |-> TRUE,
                         clk |-> clk, ret |-> r.ret]
        pause == Max(clock, st.resume)
    IN IF st.pc = "fetch"
       THEN {done(Fetched(heap, st, resources, clock), clock) :
                resources \in FetchResults(heap, st)}
            \cup {[h |-> StepRaised(heap, st.sub), upd |-> sched.updated,
                   clk |-> clock, ret |-> TRUE]}
       ELSE IF st.pc = "dl"
       THEN {done(Downloaded(heap, st, success, clock), clock) : success \in BOOLEAN}
       ELSE IF st.pc = "pause" /\ pause <= MaxClock
       THEN {done(TvLoop(heap, st.sub, st.loops, pause), pause)}
       ELSE {}

\* no try around check_all_subscriptions: the exception ends start_scheduler
PassRaisedEndsLoop(pr, clk) ==
    /\ pr.over /\ pr.updated
    /\ heap' = pr.heap
    /\ step' = [step EXCEPT ![Scheduler] = Idle]
    /\ sched' = SchedAt("failed", 0)
    /\ file' = file
    /\ saves' = 1

\* the loop of start_scheduler behind a pass that raised at clk
PassRaised(pr, clk) ==
    /\ pr.over /\ pr.updated
    /\ heap' = pr.heap
    /\ step' = [step EXCEPT ![Scheduler] = Idle]
    /\ sched' = SchedAt("sleep", clk + SchedulerPeriod * TicksPerSecond)
    /\ file' = file
    /\ saves' = 1

\* the step in flight returns or raises, the pass runs to its end, and its
\* _save_data raises
PassSaveRaises ==
    \E e \in StepEnds :
        /\ e.ret
        /\ clock' = e.clk
        /\ PassRaised(RunPass(e.h, SchedList, sched.idx + 1, e.upd, sched.now, e.clk), e.clk)
        /\ UNCHANGED <<subscriptions, is_running, task, nadds, ndel, passes>>

\* asyncio.sleep(3600) is over at t, the pass runs to its end without an
\* await, and its _save_data raises
WakeSaveRaises(t) ==
    /\ sched.pc = "sleep"
    /\ t \in WakeTimes
    /\ t <= MaxClock
    /\ passes < MaxPasses
    /\ clock' = t
    /\ passes' = passes + 1
    /\ PassRaised(RunPass(heap, subscriptions, 1, FALSE, t, t), t)
    /\ UNCHANGED <<subscriptions, is_running, task, nadds, ndel>>

\* start_scheduler is called, its first pass runs to its end without an
\* await, and its _save_data raises
StartSaveRaises ==
    /\ sched.pc = "off"
    /\ ~is_running
    /\ is_running' = TRUE
    /\ passes' = passes + 1
    /\ PassRaised(RunPass(heap, subscriptions, 1, FALSE, clock, clock), clock)
    /\ UNCHANGED <<clock, subscriptions, task, nadds, ndel>>

\* a pass begins: by the call of start_scheduler, or where its sleep ends
PassBegins == SchedStart \/ StartSaveRaises \/ Wakes \/ \E t \in WakeTimes : WakeSaveRaises(t)

\* the scheduler's passes over a loaded list, each of which may raise at its
\* final save, beside the add of a movie
NextSurvive ==
    \/ PassBegins
    \/ PassSaveRaises
    \/ \E req \in MovieRequests : AddBegin(1, req, MaxObjects + 1)
    \/ \E details \in MovieDetails : AddMovieMeta(1, details)
    \/ AddMetaRaise(1)
    \/ \E p \in {Scheduler, 1} : \E resources \in FetchResults(heap, step[p]) :
            FetchReturn(p, resources)
    \/ \E p \in {Scheduler, 1} : FetchRaise(p)
    \/ \E p \in {Scheduler, 1}, success \in BOOLEAN : DownloadReturn(p, success)
    \/ PauseReturn(Scheduler)

\* the call of start_scheduler at startup is made, and asyncio.sleep(3600) ends
SpecSurvive == InitLoad /\ [][NextSurvive]_vars /\ WF_vars(PassBegins)

\* the sleep of start_scheduler can end within the hours of the model
CanWake == sched.pc = "sleep" /\ Max(clock, sched.wake) <= MaxClock

\* C37: a pass that raises does not stop the loop: start_scheduler goes to
\* its sleep of one hour with the changes of the pass in memory, and the
\* next pass begins when that hour is over
C37_LoopSurvivesFailingPass ==
    /\ [][(PassSaveRaises \/ StartSaveRaises \/ \E t \in WakeTimes : WakeSaveRaises(t))
          => /\ is_running'
             /\ sched'.pc = "sleep"
             /\ sched'.wake = clock' + SchedulerPeriod * TicksPerSecond]_vars
    /\ [][passes' # passes /\ sched.pc = "sleep" => clock' >= sched.wake]_vars
    /\ \A n \in 1..(MaxPasses - 1) :
          (CanWake /\ passes = n) ~> (passes > n)

\* the second pass runs, one hour after a first pass whose save raised: the
\* file still lacks what the first pass wrote to the record
C37_Witness ==
    /\ passes = MaxPasses
    /\ sched.pc = "step"
    /\ \E o \in DOMAIN heap :
          /\ o \in Listed
          /\ heap[o].last_check_time.kind = "time"
          /\ Strptime(heap[o].last_check_time.secs) < sched.now
          /\ \E i \in DOMAIN file : file[i].id = heap[o].id /\ file[i].last_check_time = NoTime


\* the step of the scheduler is in flight on the Subscription o
SchedOn(o) == step[Scheduler].pc # "none" /\ step[Scheduler].sub = o

\* C38 as stated: a subscription whose step raised in a pass is, but for its
\* message, as it was before the step.  Checked for the first step ever run
\* on a loaded record, where the file still holds the record as it was.
C38_RaisedStepChangesOnlyMessage ==
    [][\A o \in DOMAIN heap :
          /\ passes = 1 /\ nadds = 0 /\ ndel = 0
          /\ SchedOn(o) /\ FetchRaise(Scheduler)
          => heap'[o] = [file[o] EXCEPT !.message = <<"check_error">>]]_vars

\* C38, amended: in a pass, last_check_time is written only by the pass,
\* with the time captured at its start, and it is written for every step
\* that returned; where the step raised, the except branch changes the
\* message and nothing else, so last_check_time is kept, and what the step
\* itself wrote before it raised stays
C38_LastCheckTimeFrame ==
    [][\A o \in DOMAIN heap :
          LET now == IF sched.pc = "step" THEN sched.now ELSE clock'
          IN /\ heap'[o].last_check_time # heap[o].last_check_time
                => /\ heap'[o].last_check_time = TimeStr(now)
                   /\ sched' # sched
                   /\ ~(SchedOn(o) /\ FetchRaise(Scheduler))
             /\ SchedOn(o) /\ FetchRaise(Scheduler)
                => heap'[o] = [heap[o] EXCEPT !.message = <<"check_error">>]
             /\ /\ SchedOn(o) /\ ~FetchRaise(Scheduler)
                /\ sched'.pc # "step" \/ sched'.idx # sched.idx
                => heap'[o].last_check_time = TimeStr(sched.now)]_vars

\* the step of a pass dispatched episode 1 of a series and raised at its next
\* lookup: the record has the error message, the episode and the time of the
\* dispatch, and no last_check_time
C38_Witness ==
    \E o \in DOMAIN heap :
        /\ heap[o].message = <<"check_error">>
        /\ heap[o].current_episode = 1
        /\ heap[o].next_check_time.kind = "time"
        /\ heap[o].last_check_time = NoTime
        /\ ~SchedOn(o)
        /\ passes = 1 /\ nadds = 0 /\ ndel = 0


\* C39: once the record is appended and saved, add_subscription returns
\* success whether the immediate check returns or raises; where it raises,
\* the record stays in the list, active, as the step left it, and the add
\* does not save again: the file keeps the record as it was appended
C39_AddSwallowsCheckError ==
    [][\A t \in Tasks :
          /\ task[t].pc = "step" /\ task'[t].pc = "done" => task'[t].result.success
          /\ task[t].pc = "step" /\ FetchRaise(t)
             => LET o == step[t].sub
                IN /\ task'[t].result = [success |-> TRUE, message |-> "subscribed"]
                   /\ subscriptions' = subscriptions /\ o \in Listed
                   /\ heap' = heap /\ heap[o].status = "active"
                   /\ file' = file /\ saves' = 0
                   /\ \E i \in DOMAIN file : file[i].id = heap[o].id]_vars


(***************************************************************************)
(* The immediate check of a series against a resource client that has an   *)
(* accepted release for every episode number, followed by the scheduler's   *)
(* passes.                                                                 *)
(***************************************************************************)
\* an await of the step of p returns without an exception
StepGoesOn(p) ==
    \/ \E resources \in EveryEpisodeResults : FetchReturn(p, resources)
    \/ \E success \in BOOLEAN : DownloadReturn(p, success)
    \/ PauseReturn(p)

NextCap ==
    \/ SchedStart
    \/ Wakes
    \/ \E req \in TvRequests : AddBegin(1, req, MaxObjects)
    \/ \E season_info \in SeasonInfos : AddSeasonMeta(1, season_info)
    \/ AddMetaRaise(1)
    \/ \E cid \in Cids : AddCid(1, cid)
    \/ AddCidRaise(1)
    \/ StepGoesOn(1)
    \/ StepGoesOn(Scheduler)

\* the runs in which the pass does not step the record while the immediate
\* check is in flight on it
NextCapSeq == NextCap /\ ~Overlap'

SpecCapSeq == Init /\ [][NextCapSeq]_vars

\* the runs in which the immediate check finds and dispatches every episode,
\* beside a pass whose lookup for the same record finds nothing
NextCapRace ==
    \/ SchedStart
    \/ Wakes
    \/ \E req \in TvRequests : AddBegin(1, req, MaxObjects)
    \/ \E season_info \in SeasonInfos : AddSeasonMeta(1, season_info)
    \/ AddMetaRaise(1)
    \/ \E cid \in Cids : AddCid(1, cid)
    \/ AddCidRaise(1)
    \/ FetchReturn(1, <<RelSingle>>)
    \/ DownloadReturn(1, TRUE)
    \/ PauseReturn(1)
    \/ FetchReturn(Scheduler, <<>>)

SpecCapRace == Init /\ [][NextCapRace]_vars

\* the last thing a step did to the series sub was a successful dispatch
LeftAtSuccess(sub) ==
    /\ sub.media_type = "tv"
    /\ sub.message # <<>>
    /\ sub.message[1] \in {"added", "pack"}

\* C40: a series step that ends at the cap of 50 iterations, each with a
\* successful dispatch, leaves the record active with next_check_time at the
\* time of the last dispatch, and the next pass of the scheduler finds it due
\* and steps it with target = current_episode + 1
C40_CapLeavesDue ==
    /\ [][\A p \in Procs :
             step[p].pc = "pause" /\ step[p].loops = max_loops /\ PauseReturn(p)
             => LET o == step[p].sub
                IN /\ step'[p].pc = "none"
                   /\ heap'[o].status = "active"
                   /\ LeftAtSuccess(heap'[o])
                   /\ heap'[o].next_check_time =
                          TimeStr(step[p].resume - PauseSecs * TicksPerSecond)]_vars
    /\ [][\A o \in Listed :
             /\ LeftAtSuccess(heap[o]) /\ heap[o].status = "active" /\ Stepping(o) = {}
             /\ passes' = passes + 1
             => \/ /\ step'[Scheduler].sub = o /\ step'[Scheduler].pc = "fetch"
                   /\ step'[Scheduler].target = heap[o].current_episode + 1
                \/ /\ heap'[o].last_check_time = TimeStr(clock')
                   /\ heap'[o].message \in
                          {<<"finished">>,
                           <<"wait_air", heap[o].current_episode + 1,
                             heap[o].episode_air_dates[heap[o].current_episode + 1]>>}]_vars

=============================================================================
